---- MODULE Spec2Model ----
(***************************************************************************)
(* MetroCity equation system: the frontend equation engine (tokenizer,     *)
(* parser, classifier, solver) and the backend equation service with its   *)
(* in-memory database, cache and analytics collaborators.                  *)
(*                                                                         *)
(* Strings are sequences of one-character strings; positions are 0-based   *)
(* as in the source, so input[position] of the source is                   *)
(* input[position + 1] here.  JavaScript numbers are modelled as exact     *)
(* rationals [n, d]: within the bounds below every double-precision        *)
(* rounding error is many orders of magnitude under the 1e-10 tolerances   *)
(* the source compares against, so each comparison has the same outcome.   *)
(***************************************************************************)
EXTENDS Integers, Sequences, FiniteSets, TLC

(***************************************************************************)
(* Bounds                                                                  *)
(***************************************************************************)
\* longest arbitrary input string that is enumerated
MaxLen == 3
\* largest literal used in generated equations 'a v + b = c v + d'
MaxCoef == 3

(***************************************************************************)
(* Numbers                                                                 *)
(***************************************************************************)
Abs(i) == IF i < 0 THEN -i ELSE i

RECURSIVE Gcd(_, _)
Gcd(a, b) == IF b = 0 THEN a ELSE Gcd(b, a % b)

\* the number n/d in lowest terms with a positive denominator
Rat(n, d) ==
  LET g == Gcd(Abs(n), Abs(d))
      s == IF d < 0 THEN -1 ELSE 1
  IN  [n |-> (s * n) \div g, d |-> (s * d) \div g]

RInt(i) == [n |-> i, d |-> 1]
RAdd(p, q) == Rat(p.n * q.d + q.n * p.d, p.d * q.d)
RNeg(p) == [n |-> -p.n, d |-> p.d]
RSub(p, q) == RAdd(p, RNeg(q))
RMul(p, q) == Rat(p.n * q.n, p.d * q.d)
\* q is non-zero at every use
RDiv(p, q) == Rat(p.n * q.d, p.d * q.n)
RAbs(p) == [n |-> Abs(p.n), d |-> p.d]
RLess(p, q) == p.n * q.d < q.n * p.d

\* Math.pow(value, exponent) for the non-negative integer exponents of a Term
RECURSIVE RPow(_, _)
RPow(p, e) == IF e = 0 THEN RInt(1) ELSE RMul(p, RPow(p, e - 1))

\* 1e-10 is EpsRoot^-2; |p| < 1e-10 iff |n| * EpsRoot < ceil(d / EpsRoot)
EpsRoot == 100000
BelowEps(p) == Abs(p.n) * EpsRoot < (p.d + EpsRoot - 1) \div EpsRoot
\* |p| > 1e-10 iff |n| * EpsRoot > floor(d / EpsRoot)
AboveEps(p) == Abs(p.n) * EpsRoot > p.d \div EpsRoot

(***************************************************************************)
(* Characters                                                              *)
(***************************************************************************)
Digits == {"0", "1", "2", "3", "4", "5", "6", "7", "8", "9"}
LowerLetters == {"a", "b", "c", "d", "e", "f", "g", "h", "i", "j", "k", "l", "m",
                 "n", "o", "p", "q", "r", "s", "t", "u", "v", "w", "x", "y", "z"}
UpperLetters == {"A", "B", "C", "D", "E", "F", "G", "H", "I", "J", "K", "L", "M",
                 "N", "O", "P", "Q", "R", "S", "T", "U", "V", "W", "X", "Y", "Z"}
\* /[a-zA-Z]/
Letters == LowerLetters \cup UpperLetters
\* /\s/ (of the characters enumerated here only the blank is whitespace)
Whitespace == {" "}

DigitValue(ch) ==
  CASE ch = "0" -> 0 [] ch = "1" -> 1 [] ch = "2" -> 2 [] ch = "3" -> 3
    [] ch = "4" -> 4 [] ch = "5" -> 5 [] ch = "6" -> 6 [] ch = "7" -> 7
    [] ch = "8" -> 8 [] ch = "9" -> 9

SUPPORTED_VARIABLES == {<<"x">>, <<"y">>, <<"z">>, <<"a">>, <<"b">>, <<"c">>, <<"n">>, <<"t">>}

\* DEFAULT_ENGINE_CONFIG.allowDecimals
allowDecimals == TRUE

\* input.slice(from, to) with 0-based, end-exclusive indices
Slice(s, from, to) == SubSeq(s, from + 1, to)


(***************************************************************************)
(* AlgebraicParser: tokenizer                                              *)
(***************************************************************************)
NULL == <<>>
Some(x) == <<x>>

\* position start = -1 stands for an error without a position
EquationError(type, message, severity, start, end) ==
  [type |-> type, message |-> message, severity |-> severity,
   start |-> start, end |-> end]

addError(type, message, severity) == EquationError(type, message, severity, -1, -1)

addWarning(type, message) == [type |-> type, message |-> message]

MakeToken(type, value, start, end) ==
  [type |-> type, value |-> value, start |-> start, end |-> end]

\* the position after the number that starts at `position`
RECURSIVE NumberEnd(_, _, _)
NumberEnd(input, position, hasDecimal) ==
  IF position < Len(input)
  THEN LET char == input[position + 1]
       IN  IF char \in Digits
           THEN NumberEnd(input, position + 1, hasDecimal)
           ELSE IF char = "." /\ ~hasDecimal /\ allowDecimals
                THEN NumberEnd(input, position + 1, TRUE)
                ELSE position
  ELSE position

parseNumber(input, start) ==
  LET position == NumberEnd(input, start, FALSE)
  IN  [token |-> MakeToken("NUMBER", Slice(input, start, position), start, position),
       newPosition |-> position]

\* the position after the run of letters that starts at `position`
RECURSIVE VariableEnd(_, _)
VariableEnd(input, position) ==
  IF position < Len(input) /\ input[position + 1] \in Letters
  THEN VariableEnd(input, position + 1)
  ELSE position

parseVariable(input, start) ==
  LET position == VariableEnd(input, start)
      value == Slice(input, start, position)
  IN  [token |-> MakeToken("VARIABLE", value, start, position),
       newPosition |-> position,
       warnings |-> IF value \in SUPPORTED_VARIABLES
                    THEN <<>>
                    ELSE <<addWarning("unusual_format", "Variable no es estándar")>>]

\* parseSymbol that also accepts the characters outside symbolMap
parseSymbol_acceptAll(char, position) ==
  Some(MakeToken(IF char = "=" THEN "EQUALS" ELSE "OPERATOR", <<char>>,
                 position, position + 1))

\* the token of a symbol, NULL for a character outside symbolMap
parseSymbol(char, position) ==
  LET tokenType == CASE char \in {"+", "-", "*", "/"} -> "OPERATOR"
                     [] char = "=" -> "EQUALS"
                     [] char = "(" -> "LPAREN"
                     [] char = ")" -> "RPAREN"
                     [] OTHER -> "none"
  IN  IF tokenType = "none"
      THEN NULL
      ELSE Some(MakeToken(tokenType, <<char>>, position, position + 1))

\* the scan loop of tokenize; st holds the parser's tokens, errors, warnings
RECURSIVE TokenizeFrom(_, _, _)
TokenizeFrom(input, position, st) ==
  IF position >= Len(input)
  THEN st
  ELSE LET char == input[position + 1]
       IN  IF char \in Whitespace
           THEN TokenizeFrom(input, position + 1, st)
           ELSE IF char \in Digits
           THEN LET r == parseNumber(input, position)
                IN  TokenizeFrom(input, r.newPosition,
                                 [st EXCEPT !.tokens = Append(@, r.token)])
           ELSE IF char \in Letters
           THEN LET r == parseVariable(input, position)
                IN  TokenizeFrom(input, r.newPosition,
                                 [st EXCEPT !.tokens = Append(@, r.token),
                                            !.warnings = @ \o r.warnings])
           ELSE LET symbol == parseSymbol(char, position)
                IN  IF symbol # NULL
                    THEN TokenizeFrom(input, position + 1,
                                      [st EXCEPT !.tokens = Append(@, symbol[1])])
                    ELSE TokenizeFrom(input, position + 1,
                           [st EXCEPT !.errors = Append(@,
                              EquationError("invalid_character", "Caracter no válido",
                                            "medium", position, position + 1))])

\* the parser's state after reset()
reset == [tokens |-> <<>>, errors |-> <<>>, warnings |-> <<>>]

tokenize(input) == TokenizeFrom(input, 0, reset)

(***************************************************************************)
(* AlgebraicParser: terms and expressions                                  *)
(***************************************************************************)
\* parseFloat of a NUMBER token's text: digits with at most one '.'
RECURSIVE ParseFloatFrom(_, _, _, _, _)
ParseFloatFrom(value, i, n, d, seenPoint) ==
  IF i > Len(value)
  THEN Rat(n, d)
  ELSE IF value[i] = "."
       THEN ParseFloatFrom(value, i + 1, n, d, TRUE)
       ELSE ParseFloatFrom(value, i + 1, n * 10 + DigitValue(value[i]),
                           IF seenPoint THEN d * 10 ELSE d, seenPoint)

parseFloat(value) == ParseFloatFrom(value, 1, 0, 1, FALSE)

\* a Term; variable <<>> is `undefined`, exponent 0 is `undefined`
\* (every reader of exponent uses `term.exponent || 1`)
MakeTerm(coefficient, variable) ==
  [coefficient |-> coefficient, variable |-> variable,
   exponent |-> IF variable # <<>> THEN 1 ELSE 0,
   isConstant |-> variable = <<>>]

\* term is NULL or Some(term); errors are the errors the call adds
parseSingleTerm(tokens, startIndex) ==
  LET hasSign == startIndex < Len(tokens) /\ tokens[startIndex + 1].type = "OPERATOR"
      sign == IF hasSign /\ tokens[startIndex + 1].value = <<"-">> THEN -1 ELSE 1
      i1 == IF hasSign THEN startIndex + 1 ELSE startIndex
      hasCoefficient == i1 < Len(tokens) /\ tokens[i1 + 1].type = "NUMBER"
      i2 == IF hasCoefficient THEN i1 + 1 ELSE i1
      hasVariable == i2 < Len(tokens) /\ tokens[i2 + 1].type = "VARIABLE"
      variable == IF hasVariable THEN tokens[i2 + 1].value ELSE <<>>
      index == IF hasVariable THEN i2 + 1 ELSE i2
      coefficient == IF hasCoefficient THEN parseFloat(tokens[i1 + 1].value)
                     ELSE IF hasVariable THEN RInt(1) ELSE RInt(0)
  IN  IF ~hasVariable /\ ~hasCoefficient /\ sign = -1
      THEN [term |-> NULL, nextIndex |-> index,
            errors |-> <<addError("syntax_error", "Signo negativo sin término", "medium")>>]
      ELSE IF ~hasCoefficient /\ variable = <<>>
      THEN [term |-> NULL, nextIndex |-> index + 1, errors |-> <<>>]
      ELSE [term |-> Some(MakeTerm(RMul(RInt(sign), coefficient), variable)),
            nextIndex |-> index, errors |-> <<>>]

\* the key under which combineAndSimplifyTerms groups a term
TermKey(term) ==
  IF term.variable # <<>> THEN term.variable
  ELSE <<"c", "o", "n", "s", "t", "a", "n", "t">>

\* the insertion-ordered object `simplified` after adding terms[i..]
RECURSIVE CombineFrom(_, _, _)
CombineFrom(terms, i, simplified) ==
  IF i > Len(terms)
  THEN simplified
  ELSE LET term == terms[i]
           hit == {k \in 1..Len(simplified) : TermKey(simplified[k]) = TermKey(term)}
       IN  IF hit # {}
           THEN LET k == CHOOSE k \in hit : TRUE
                IN  CombineFrom(terms, i + 1,
                      [simplified EXCEPT ![k].coefficient = RAdd(@, term.coefficient)])
           ELSE CombineFrom(terms, i + 1, Append(simplified, term))

combineAndSimplifyTerms(terms) ==
  SelectSeq(CombineFrom(terms, 1, <<>>), LAMBDA term : AboveEps(term.coefficient))

\* the loop of parseTerms from token index i
RECURSIVE ParseTermsFrom(_, _, _, _)
ParseTermsFrom(tokens, i, terms, errors) ==
  IF i >= Len(tokens)
  THEN [terms |-> terms, errors |-> errors]
  ELSE LET r == parseSingleTerm(tokens, i)
       IN  ParseTermsFrom(tokens, r.nextIndex, terms \o r.term, errors \o r.errors)

parseTerms(tokens) ==
  LET r == ParseTermsFrom(tokens, 0, <<>>, <<>>)
  IN  [terms |-> combineAndSimplifyTerms(r.terms), errors |-> r.errors]

createEmptyExpression == [terms |-> <<>>, simplified |-> TRUE]

parseExpression(tokens) ==
  IF Len(tokens) = 0
  THEN [expression |-> createEmptyExpression,
        errors |-> <<addError("empty_expression", "Expresión vacía detectada", "high")>>]
  ELSE LET r == parseTerms(tokens)
       IN  [expression |-> [terms |-> r.terms, simplified |-> FALSE],
            errors |-> r.errors]

\* index of the first EQUALS token (0-based), -1 if there is none
findEqualsSign(tokens) ==
  LET eq == {i \in 1..Len(tokens) : tokens[i].type = "EQUALS"}
  IN  IF eq = {} THEN -1 ELSE (CHOOSE i \in eq : \A j \in eq : i <= j) - 1

\* Array.from(Set) over the variables of a term list, in first-seen order
RECURSIVE VariablesFrom(_, _, _)
VariablesFrom(terms, i, seen) ==
  IF i > Len(terms)
  THEN seen
  ELSE IF terms[i].variable # <<>> /\ \A k \in 1..Len(seen) : seen[k] # terms[i].variable
       THEN VariablesFrom(terms, i + 1, Append(seen, terms[i].variable))
       ELSE VariablesFrom(terms, i + 1, seen)

extractVariablesFromExpressions(left, right) ==
  VariablesFrom(left.terms \o right.terms, 1, <<>>)

createEquationAST(left, right, originalInput) ==
  [left |-> left, right |-> right,
   metadata |-> [originalInput |-> originalInput, difficultyLevel |-> "beginner",
                 estimatedSteps |-> 0, requiredOperations |-> <<>>],
   equationType |-> "basic",
   variables |-> extractVariablesFromExpressions(left, right),
   complexity |-> 0]

createParseResult(ast, st) ==
  [ast |-> ast, tokens |-> st.tokens, errors |-> st.errors, warnings |-> st.warnings]

\* parseEquation once both sides are parsed: l and r are the results of
\* parseExpression on the tokens before and after the equals sign
parseEquationSides(input, st, l, r) ==
  createParseResult(
    Some(createEquationAST(l.expression, r.expression, input)),
    [st EXCEPT !.errors = @ \o l.errors \o r.errors])

\* parseEquation once the equals sign is looked up
parseEquationAt(input, st, equalsIndex) ==
  IF equalsIndex = -1
  THEN createParseResult(NULL,
         [st EXCEPT !.errors = Append(@,
            addError("syntax_error", "Falta el signo de igualdad (=)", "high"))])
  ELSE parseEquationSides(input, st,
         parseExpression(Slice(st.tokens, 0, equalsIndex)),
         parseExpression(Slice(st.tokens, equalsIndex + 1, Len(st.tokens))))

\* parseEquation after tokenize: st is the parser's state then
parseEquationTokens(input, st) ==
  IF Len(st.tokens) = 0
  THEN createParseResult(NULL,
         [st EXCEPT !.errors = Append(@,
            addError("empty_expression", "La ecuación está vacía", "high"))])
  ELSE parseEquationAt(input, st, findEqualsSign(st.tokens))

parseEquation(input) == parseEquationTokens(input, tokenize(input))

(***************************************************************************)
(* AlgebraicParser: type detection                                         *)
(***************************************************************************)
hasDistributivePattern(ast) ==
  LET allTerms == ast.left.terms \o ast.right.terms
  IN  Len(allTerms) >= 3 /\
      \E k \in 1..Len(allTerms) :
         RLess(RInt(1), RAbs(allTerms[k].coefficient)) /\ ~allTerms[k].isConstant

\* detectEquationType with the term-count rule tried before the distributive
\* pattern
detectEquationType_complexFirst(ast) ==
  LET allTerms == ast.left.terms \o ast.right.terms
      variableTerms == SelectSeq(allTerms, LAMBDA term : ~term.isConstant)
      hasMultipleTerms == Len(variableTerms) > 1
  IN  IF Len(variableTerms) = 0
      THEN [type |-> "basic",
            warnings |-> <<addWarning("unusual_format", "Ecuación sin variables")>>]
      ELSE [type |-> IF Len(variableTerms) = 1 /\ Len(allTerms) <= 2 THEN "basic"
                     ELSE IF hasMultipleTerms /\ Len(allTerms) <= 4 THEN "standard"
                     ELSE IF Len(allTerms) > 4 THEN "complex"
                     ELSE IF hasDistributivePattern(ast) THEN "distributive"
                     ELSE "standard",
            warnings |-> <<>>]

\* type is the returned EquationType, warnings what the call adds to the
\* parser's warnings list
detectEquationType(ast) ==
  LET allTerms == ast.left.terms \o ast.right.terms
      variableTerms == SelectSeq(allTerms, LAMBDA term : ~term.isConstant)
      hasMultipleTerms == Len(variableTerms) > 1
  IN  IF Len(variableTerms) = 0
      THEN [type |-> "basic",
            warnings |-> <<addWarning("unusual_format", "Ecuación sin variables")>>]
      ELSE [type |-> IF Len(variableTerms) = 1 /\ Len(allTerms) <= 2 THEN "basic"
                     ELSE IF hasMultipleTerms /\ Len(allTerms) <= 4 THEN "standard"
                     ELSE IF hasDistributivePattern(ast) THEN "distributive"
                     ELSE IF Len(allTerms) > 4 THEN "complex"
                     ELSE "standard",
            warnings |-> <<>>]

(***************************************************************************)
(* EquationValidator.validateInput                                         *)
(***************************************************************************)
\* /^[0-9a-zA-Z+\-*/=().\s]*$/
ValidChars == Digits \cup Letters \cup Whitespace \cup {"+", "-", "*", "/", "=", "(", ")", "."}
OperatorChars == {"+", "-", "*", "/"}

\* checkEmptyInput without the trim
checkEmptyInput_untrimmed(input) ==
  IF Len(input) = 0
  THEN <<addError("empty_expression", "La ecuación no puede estar vacía", "critical")>>
  ELSE <<>>

checkEmptyInput(input) ==
  IF \A i \in 1..Len(input) : input[i] \in Whitespace
  THEN <<addError("empty_expression", "La ecuación no puede estar vacía", "critical")>>
  ELSE <<>>

checkValidCharacters(input) ==
  IF \E i \in 1..Len(input) : input[i] \notin ValidChars
  THEN <<addError("invalid_character", "Caracteres no válidos encontrados", "high")>>
  ELSE <<>>

checkEqualsSign(input) ==
  LET equalsCount == Cardinality({i \in 1..Len(input) : input[i] = "="})
  IN  IF equalsCount = 0
      THEN <<addError("syntax_error", "Falta el signo de igualdad (=)", "high")>>
      ELSE IF equalsCount > 1
           THEN <<addError("syntax_error", "Solo debe haber un signo de igualdad", "high")>>
           ELSE <<>>

\* the loop of checkParenthesesBalance from 0-based position
RECURSIVE BalanceFrom(_, _, _)
BalanceFrom(input, position, balance) ==
  IF position >= Len(input)
  THEN IF balance > 0
       THEN <<addError("mismatched_parentheses", "Faltan paréntesis de cierre", "high")>>
       ELSE <<>>
  ELSE LET char == input[position + 1]
       IN  IF char = "("
           THEN BalanceFrom(input, position + 1, balance + 1)
           ELSE IF char = ")"
                THEN IF balance - 1 < 0
                     THEN <<EquationError("mismatched_parentheses",
                              "Paréntesis de cierre sin paréntesis de apertura correspondiente",
                              "high", position, position + 1)>>
                     ELSE BalanceFrom(input, position + 1, balance - 1)
                ELSE BalanceFrom(input, position + 1, balance)

checkParenthesesBalance(input) == BalanceFrom(input, 0, 0)

\* the end (exclusive, 0-based) of the run of operator characters at position
RECURSIVE OperatorRunEnd(_, _)
OperatorRunEnd(input, position) ==
  IF position < Len(input) /\ input[position + 1] \in OperatorChars
  THEN OperatorRunEnd(input, position + 1)
  ELSE position

\* the matches of /[+\-*/]{2,}/g, left to right
RECURSIVE ConsecutiveFrom(_, _, _)
ConsecutiveFrom(input, position, r) ==
  IF position >= Len(input)
  THEN r
  ELSE LET end == OperatorRunEnd(input, position)
           match == Slice(input, position, end)
       IN  IF end - position < 2
           THEN ConsecutiveFrom(input, IF end = position THEN position + 1 ELSE end, r)
           ELSE IF match = <<"-", "-">> \/ match = <<"+", "+">>
                THEN ConsecutiveFrom(input, end,
                       [r EXCEPT !.warnings = Append(@,
                          addWarning("can_be_simplified", "Operadores consecutivos pueden simplificarse"))])
                ELSE ConsecutiveFrom(input, end,
                       [r EXCEPT !.errors = Append(@,
                          addError("syntax_error", "Operadores consecutivos no válidos", "medium"))])

checkConsecutiveOperators(input) ==
  ConsecutiveFrom(input, 0, [errors |-> <<>>, warnings |-> <<>>])

\* [...new Set(input.match(/[a-zA-Z]/g))] in first-seen order
RECURSIVE UniqueLettersFrom(_, _, _)
UniqueLettersFrom(input, i, seen) ==
  IF i > Len(input)
  THEN seen
  ELSE IF input[i] \in Letters /\ \A k \in 1..Len(seen) : seen[k] # input[i]
       THEN UniqueLettersFrom(input, i + 1, Append(seen, input[i]))
       ELSE UniqueLettersFrom(input, i + 1, seen)

checkVariableUsage(input) ==
  LET uniqueVariables == UniqueLettersFrom(input, 1, <<>>)
      unusual == SelectSeq(uniqueVariables, LAMBDA v : <<v>> \notin SUPPORTED_VARIABLES)
  IN  [k \in 1..Len(unusual) |-> addWarning("unusual_format", "Variable no es estándar")]
      \o (IF Len(uniqueVariables) > 1
          THEN <<addWarning("high_complexity", "Ecuación con múltiples variables")>>
          ELSE <<>>)

validateInput(input) ==
  LET consecutive == checkConsecutiveOperators(input)
      errors == checkEmptyInput(input) \o checkValidCharacters(input)
                \o checkEqualsSign(input) \o checkParenthesesBalance(input)
                \o consecutive.errors
  IN  [isValid |-> Len(errors) = 0,
       errors |-> errors,
       warnings |-> consecutive.warnings \o checkVariableUsage(input)]

(***************************************************************************)
(* Frontend EquationEngine: parse                                          *)
(***************************************************************************)
\* DEFAULT_ENGINE_CONFIG.maxSteps
maxSteps == 20

Min(a, b) == IF a < b THEN a ELSE b

extractVariables(ast) == VariablesFrom(ast.left.terms \o ast.right.terms, 1, <<>>)

typeComplexity(equationType) ==
  CASE equationType = "basic" -> 1
    [] equationType = "standard" -> 2
    [] equationType = "distributive" -> 3
    [] equationType = "complex" -> 5
    [] equationType = "fractional" -> 4
    [] equationType = "multi_step" -> 6
    [] OTHER -> 1

calculateComplexity(ast) ==
  Min(Len(ast.left.terms) + Len(ast.right.terms) + typeComplexity(ast.equationType), 10)

baseSteps(equationType) ==
  CASE equationType = "basic" -> 2
    [] equationType = "standard" -> 3
    [] equationType = "distributive" -> 4
    [] equationType = "complex" -> 6
    [] equationType = "fractional" -> 5
    [] equationType = "multi_step" -> 8
    [] OTHER -> 3

estimateSteps(ast) ==
  LET steps == baseSteps(ast.equationType)
  IN  Min(IF ast.complexity > 5 THEN steps + (ast.complexity \div 2) ELSE steps, maxSteps)

analyzeRequiredOperations(ast) ==
  CASE ast.equationType = "basic" -> <<"transposition", "isolation">>
    [] ast.equationType = "standard" -> <<"transposition", "combination", "isolation">>
    [] ast.equationType \in {"distributive", "complex"} ->
         <<"distribution", "combination", "transposition", "isolation">>
    [] ast.equationType = "fractional" -> <<"multiplication", "combination", "isolation">>
    [] OTHER -> <<"combination", "transposition", "isolation">>

\* every helper is applied to the AST as the parser returned it
enhanceAST(ast) ==
  [ast EXCEPT !.equationType = detectEquationType(ast).type,
              !.variables = extractVariables(ast),
              !.complexity = calculateComplexity(ast),
              !.metadata.estimatedSteps = estimateSteps(ast),
              !.metadata.requiredOperations = analyzeRequiredOperations(ast)]

\* parse after the parser returned: a non-null AST is enhanced
parseEnhance(result) ==
  IF result.ast # NULL
  THEN [result EXCEPT
          !.ast = Some(enhanceAST(result.ast[1])),
          !.warnings = @ \o detectEquationType(result.ast[1]).warnings]
  ELSE result

\* parse after validateInput returned
parseValidated(equation, validation) ==
  IF ~validation.isValid
  THEN [ast |-> NULL, tokens |-> <<>>, errors |-> validation.errors,
        warnings |-> validation.warnings]
  ELSE parseEnhance(parseEquation(equation))

\* EquationEngine.parse
parse(equation) == parseValidated(equation, validateInput(equation))

(***************************************************************************)
(* Frontend EquationEngine: solve                                          *)
(***************************************************************************)
\* ExpressionEvaluator.evaluateTerm; ok = FALSE when the source throws
evaluateTerm(term, variable, value) ==
  IF term.isConstant
  THEN [ok |-> TRUE, value |-> term.coefficient]
  ELSE IF term.variable = variable
       THEN [ok |-> TRUE,
             value |-> RMul(term.coefficient,
                            RPow(value, IF term.exponent = 0 THEN 1 ELSE term.exponent))]
       ELSE [ok |-> FALSE, value |-> RInt(0)]

RECURSIVE EvaluateFrom(_, _, _, _, _)
EvaluateFrom(terms, i, variable, value, result) ==
  IF i > Len(terms)
  THEN [ok |-> TRUE, value |-> result]
  ELSE LET termValue == evaluateTerm(terms[i], variable, value)
       IN  IF termValue.ok
           THEN EvaluateFrom(terms, i + 1, variable, value, RAdd(result, termValue.value))
           ELSE termValue

evaluateWithSubstitution(expression, variable, value) ==
  EvaluateFrom(expression.terms, 1, variable, value, RInt(0))

\* sum of the coefficients of the terms solveMathematically counts as variable terms
RECURSIVE VariableCoeffFrom(_, _, _)
VariableCoeffFrom(terms, i, variable) ==
  IF i > Len(terms) THEN RInt(0)
  ELSE RAdd(IF terms[i].variable = variable THEN terms[i].coefficient ELSE RInt(0),
            VariableCoeffFrom(terms, i + 1, variable))

\* sum of the coefficients of the terms solveMathematically counts as constants
RECURSIVE ConstantTermFrom(_, _, _)
ConstantTermFrom(terms, i, variable) ==
  IF i > Len(terms) THEN RInt(0)
  ELSE RAdd(IF terms[i].variable # variable /\ terms[i].isConstant
            THEN terms[i].coefficient ELSE RInt(0),
            ConstantTermFrom(terms, i + 1, variable))

\* solveMathematically with the sign of the constant dropped
solveMathematically_signSlip(equation, variable) ==
  LET variableCoeff == RSub(VariableCoeffFrom(equation.left.terms, 1, variable),
                            VariableCoeffFrom(equation.right.terms, 1, variable))
      constantTerm == RSub(ConstantTermFrom(equation.left.terms, 1, variable),
                           ConstantTermFrom(equation.right.terms, 1, variable))
  IN  IF BelowEps(variableCoeff)
      THEN [ok |-> FALSE, value |-> RInt(0)]
      ELSE [ok |-> TRUE, value |-> RDiv(constantTerm, variableCoeff)]

\* solveMathematically defaulting to 0 instead of throwing
solveMathematically_zeroDefault(equation, variable) ==
  LET variableCoeff == RSub(VariableCoeffFrom(equation.left.terms, 1, variable),
                            VariableCoeffFrom(equation.right.terms, 1, variable))
      constantTerm == RSub(ConstantTermFrom(equation.left.terms, 1, variable),
                           ConstantTermFrom(equation.right.terms, 1, variable))
  IN  IF BelowEps(variableCoeff)
      THEN [ok |-> TRUE, value |-> RInt(0)]
      ELSE [ok |-> TRUE, value |-> RDiv(RNeg(constantTerm), variableCoeff)]

\* ok = FALSE for 'La ecuación no tiene solución única'
solveMathematically(equation, variable) ==
  LET variableCoeff == RSub(VariableCoeffFrom(equation.left.terms, 1, variable),
                            VariableCoeffFrom(equation.right.terms, 1, variable))
      constantTerm == RSub(ConstantTermFrom(equation.left.terms, 1, variable),
                           ConstantTermFrom(equation.right.terms, 1, variable))
  IN  IF BelowEps(variableCoeff)
      THEN [ok |-> FALSE, value |-> RInt(0)]
      ELSE [ok |-> TRUE, value |-> RDiv(RNeg(constantTerm), variableCoeff)]

determineSolutionMethod(equation) ==
  CASE equation.equationType = "basic" -> "direct_isolation"
    [] equation.equationType = "distributive" -> "distribution_first"
    [] equation.equationType = "fractional" -> "cross_multiplication"
    [] OTHER -> "combination_first"

\* ok = FALSE when the source throws
applySolutionSteps(equation) ==
  IF Len(equation.variables) = 0
  THEN [ok |-> FALSE, error |-> "No se encontraron variables en la ecuación",
        variable |-> <<>>, value |-> RInt(0), solutionMethod |-> "none"]
  ELSE LET variable == equation.variables[1]
           finalValue == solveMathematically(equation, variable)
       IN  IF ~finalValue.ok
           THEN [ok |-> FALSE, error |-> "La ecuación no tiene solución única",
                 variable |-> variable, value |-> RInt(0), solutionMethod |-> "none"]
           ELSE [ok |-> TRUE, error |-> "",
                 variable |-> variable, value |-> finalValue.value,
                 solutionMethod |-> determineSolutionMethod(equation)]

\* 1e-10 as the tolerance of verifySolution
verifySolution(equation, solution) ==
  LET leftResult == evaluateWithSubstitution(equation.left, solution.variable, solution.value)
      rightResult == evaluateWithSubstitution(equation.right, solution.variable, solution.value)
  IN  IF ~leftResult.ok \/ ~rightResult.ok
      THEN [ok |-> FALSE, leftSideResult |-> RInt(0), rightSideResult |-> RInt(0),
            isValid |-> FALSE]
      ELSE [ok |-> TRUE, leftSideResult |-> leftResult.value,
            rightSideResult |-> rightResult.value,
            isValid |-> BelowEps(RSub(leftResult.value, rightResult.value))]

methodBonus(solutionMethod) ==
  CASE solutionMethod = "direct_isolation" -> Rat(20, 100)
    [] solutionMethod = "distribution_first" -> Rat(15, 100)
    [] solutionMethod = "combination_first" -> Rat(10, 100)
    [] solutionMethod = "cross_multiplication" -> Rat(15, 100)
    [] solutionMethod = "elimination" -> Rat(5, 100)
    [] OTHER -> RInt(0)

\* calculateConfidence without the check of the verification
calculateConfidence_unverified(solution, verification) ==
  LET confidence == RAdd(Rat(80, 100), methodBonus(solution.solutionMethod))
  IN  IF RLess(RInt(1), confidence) THEN RInt(1) ELSE confidence

calculateConfidence(solution, verification) ==
  IF ~verification.isValid
  THEN RInt(0)
  ELSE LET confidence == RAdd(Rat(80, 100), methodBonus(solution.solutionMethod))
       IN  IF RLess(RInt(1), confidence) THEN RInt(1) ELSE confidence

\* the outcome of a solve call that throws
SolveError(message) ==
  [status |-> "error", error |-> message, variable |-> <<>>, value |-> RInt(0),
   solutionMethod |-> "none", leftSideResult |-> RInt(0), rightSideResult |-> RInt(0),
   isValid |-> FALSE, confidence |-> RInt(0)]

\* EquationEngine.solve; status "error" when the call throws
solve(equation) ==
  LET solution == applySolutionSteps(equation)
  IN  IF ~solution.ok
      THEN SolveError(solution.error)
      ELSE LET verification == verifySolution(equation, solution)
           IN  IF ~verification.ok
               THEN SolveError("No se puede evaluar el término")
               ELSE [status |-> "ok", error |-> "", variable |-> solution.variable,
                     value |-> solution.value, solutionMethod |-> solution.solutionMethod,
                     leftSideResult |-> verification.leftSideResult,
                     rightSideResult |-> verification.rightSideResult,
                     isValid |-> verification.isValid,
                     confidence |-> calculateConfidence(solution, verification)]

(***************************************************************************)
(* Inputs of the engine                                                    *)
(***************************************************************************)
\* characters the arbitrary input strings are built from
Alphabet == {"1", "2", "x", "y", "+", "-", "=", ".", " ", "$", "(", ")"}

RECURSIVE StringsUpTo(_)
StringsUpTo(n) ==
  IF n = 0 THEN {<<>>}
  ELSE LET shorter == StringsUpTo(n - 1)
       IN  shorter \cup {Append(s, ch) : s \in {t \in shorter : Len(t) = n - 1}, ch \in Alphabet}

ArbitraryInputs == StringsUpTo(MaxLen)

\* the scenarios of section 8 and the inputs the claims name
ExampleInputs ==
  { <<"x", " ", "+", " ", "5", " ", "=", " ", "1", "0">>,
    <<"2", "x", " ", "=", " ", "1", "0">>,
    <<"2", "x", " ", "+", " ", "3", " ", "=", " ", "x", " ", "+", " ", "8">>,
    <<"3", "x", " ", "+", " ", "2", " ", "=", " ", "8">>,
    <<"x", " ", "+", " ", "2">>,
    <<"1", ".", "5", "x", " ", "=", " ", "3">> }

\* the five equations of the test 'debe reconocer AL MENOS 3 tipos diferentes'
DiverseEquations ==
  { <<"x", " ", "+", " ", "5", " ", "=", " ", "0">>,
    <<"2", "x", " ", "+", " ", "3", " ", "=", " ", "x", " ", "+", " ", "1">>,
    <<"2", "(", "x", " ", "+", " ", "1", ")", " ", "=", " ", "6">>,
    <<"3", "x", " ", "-", " ", "4", " ", "=", " ", "2", "x", " ", "+", " ", "8">>,
    <<"4", "(", "2", "x", " ", "-", " ", "1", ")", " ", "=", " ", "3", "x", " ", "+", " ", "5">> }

\* equations with a parenthesized factor, from the test 'debe reconocer
\* ecuaciones DISTRIBUTIVAS'
DistributiveEquations ==
  { <<"2", "(", "x", " ", "+", " ", "3", ")", " ", "=", " ", "1", "0">>,
    <<"4", "(", "x", " ", "-", " ", "2", ")", " ", "=", " ", "8">>,
    <<"3", "(", "2", "x", " ", "-", " ", "1", ")", " ", "=", " ", "x", " ", "+", " ", "5">> }

\* decimal digits of a natural number
RECURSIVE NumToStr(_)
NumToStr(n) ==
  LET digit == CHOOSE ch \in Digits : DigitValue(ch) = n % 10
  IN  IF n < 10 THEN <<digit>> ELSE Append(NumToStr(n \div 10), digit)

\* a generated equation 'a v + b = c v + d': each literal is a number,
\* Omitted for an omitted term, or Implicit for a variable term written
\* without its coefficient 1
Omitted == -1
Implicit == -2
VarTermOptions == Implicit..MaxCoef
ConstTermOptions == Omitted..MaxCoef
FormVariables == {"x", "y"}
NoForm == [a |-> Omitted, b |-> Omitted, c |-> Omitted, d |-> Omitted, v |-> "none"]
LinearForms ==
  [a : VarTermOptions, b : ConstTermOptions, c : VarTermOptions, d : ConstTermOptions,
   v : FormVariables]

FormatSide(coef, const, v) ==
  LET varText == IF coef = Omitted THEN <<>>
                 ELSE IF coef = Implicit THEN <<v>>
                 ELSE Append(NumToStr(coef), v)
      constText == IF const = Omitted THEN <<>> ELSE NumToStr(const)
  IN  IF varText # <<>> /\ constText # <<>>
      THEN varText \o <<" ", "+", " ">> \o constText
      ELSE varText \o constText

FormatForm(f) == FormatSide(f.a, f.b, f.v) \o <<" ", "=", " ">> \o FormatSide(f.c, f.d, f.v)

\* the written equations 'a(x + b) = c' and 'a*x = c'
GroupedInput(a, b, c) ==
  NumToStr(a) \o <<"(", "x", " ", "+", " ">> \o NumToStr(b) \o <<")", " ", "=", " ">>
  \o NumToStr(c)

ProductInput(a, c) == NumToStr(a) \o <<"*", "x", " ", "=", " ">> \o NumToStr(c)

OperatorInputs ==
  {GroupedInput(a, b, c) : a \in 1..MaxCoef, b \in 0..MaxCoef, c \in 0..MaxCoef}
  \cup {ProductInput(a, c) : a \in 1..MaxCoef, c \in 0..MaxCoef}

\* the number a literal of a form stands for
LiteralValue(lit) == IF lit = Omitted THEN 0 ELSE IF lit = Implicit THEN 1 ELSE lit

\* ASTs handed to solve directly (solve is public and takes any EquationAST)
GivenTerm(coefficient, variable, exponent) ==
  [coefficient |-> RInt(coefficient), variable |-> variable,
   exponent |-> exponent, isConstant |-> variable = <<>>]

GivenExpressions ==
  {<<GivenTerm(c, <<"x">>, e)>> : c \in 1..2, e \in 1..2}
  \cup {<<GivenTerm(c, <<"x">>, e), GivenTerm(k, <<>>, 0)>> : c \in 1..2, e \in 1..2, k \in 1..2}
  \cup {<<GivenTerm(k, <<>>, 0)>> : k \in 1..2}

GivenASTs ==
  {[left |-> [terms |-> l, simplified |-> FALSE],
    right |-> [terms |-> r, simplified |-> FALSE],
    metadata |-> [originalInput |-> <<>>, difficultyLevel |-> "beginner",
                  estimatedSteps |-> 0, requiredOperations |-> <<>>],
    equationType |-> t,
    variables |-> VariablesFrom(l \o r, 1, <<>>),
    complexity |-> 0] :
   l \in GivenExpressions, r \in GivenExpressions, t \in {"basic", "standard", "distributive"}}

(***************************************************************************)
(* Backend EquationEngine (the engine EquationService is built with)       *)
(***************************************************************************)
LowerSeq == <<"a", "b", "c", "d", "e", "f", "g", "h", "i", "j", "k", "l", "m",
              "n", "o", "p", "q", "r", "s", "t", "u", "v", "w", "x", "y", "z">>
UpperSeq == <<"A", "B", "C", "D", "E", "F", "G", "H", "I", "J", "K", "L", "M",
              "N", "O", "P", "Q", "R", "S", "T", "U", "V", "W", "X", "Y", "Z">>

IndexIn(seq, ch) == CHOOSE i \in 1..Len(seq) : seq[i] = ch

\* String.prototype.toLowerCase on the characters of the model
toLowerCase(str) ==
  [i \in 1..Len(str) |->
     IF str[i] \in UpperLetters THEN LowerSeq[IndexIn(UpperSeq, str[i])] ELSE str[i]]

\* String.prototype.charCodeAt for one character
charCodeAt(ch) ==
  CASE ch \in Digits -> 48 + DigitValue(ch)
    [] ch \in LowerLetters -> 96 + IndexIn(LowerSeq, ch)
    [] ch \in UpperLetters -> 64 + IndexIn(UpperSeq, ch)
    [] ch = " " -> 32
    [] ch = "$" -> 36
    [] ch = "(" -> 40
    [] ch = ")" -> 41
    [] ch = "*" -> 42
    [] ch = "+" -> 43
    [] ch = "-" -> 45
    [] ch = "." -> 46
    [] ch = "/" -> 47
    [] ch = "=" -> 61

includes(str, ch) == \E i \in 1..Len(str) : str[i] = ch

\* /[a-zA-Z]/.test(str)
HasLetter(str) == \E i \in 1..Len(str) : str[i] \in Letters

\* the type of an input with exactly one '=', at 1-based position eq
detectSplitType(input, eq) ==
  IF HasLetter(SubSeq(input, 1, eq - 1)) /\ HasLetter(SubSeq(input, eq + 1, Len(input)))
  THEN "standard"
  ELSE "basic"

detectSimpleType(input) ==
  IF includes(input, "(") /\ includes(input, ")")
  THEN "distributive"
  ELSE IF Cardinality({i \in 1..Len(input) : input[i] = "="}) = 1
       THEN detectSplitType(input, CHOOSE i \in 1..Len(input) : input[i] = "=")
       ELSE "basic"

\* one variable name per letter
LetterNames(letters) == [k \in 1..Len(letters) |-> <<letters[k]>>]

extractSimpleVariables(input) ==
  LetterNames(UniqueLettersFrom(toLowerCase(input), 1, <<>>))

\* a Term of the mock AST; variable <<>> is `undefined`
BackendTerm(coefficient, variable) ==
  [coefficient |-> RInt(coefficient), variable |-> variable, isConstant |-> variable = <<>>]

\* `eq_${Date.now()}`
EquationId(time) == <<"eq_">> \o NumToStr(time)

\* EquationEngine.parse of the backend: the AST of 2x + 3 = 7 whatever the input
backendParse(input, time) ==
  [ast |-> Some(
     [left |-> [terms |-> <<BackendTerm(2, <<"x">>), BackendTerm(3, <<>>)>>,
                simplified |-> FALSE],
      right |-> [terms |-> <<BackendTerm(7, <<>>)>>, simplified |-> FALSE],
      metadata |-> [id |-> EquationId(time), originalInput |-> input, timestamp |-> time,
                    difficultyLevel |-> "beginner", estimatedSteps |-> 3,
                    requiredOperations |-> <<"transposition", "isolation">>],
      equationType |-> detectSimpleType(input),
      variables |-> extractSimpleVariables(input),
      complexity |-> 2]),
   tokens |-> <<>>, errors |-> <<>>, warnings |-> <<>>]

\* the sum of the coefficients of the constant (or of the other) terms from i
RECURSIVE SumCoefficients(_, _, _)
SumCoefficients(terms, i, constants) ==
  IF i > Len(terms)
  THEN RInt(0)
  ELSE IF terms[i].isConstant = constants
       THEN RAdd(terms[i].coefficient, SumCoefficients(terms, i + 1, constants))
       ELSE SumCoefficients(terms, i + 1, constants)

\* Math.round of a fraction: the integer nearest to it, halves upwards
MathRound(p) == (2 * p.n + p.d) \div (2 * p.d)

\* the last lines of solveMockEquation, on the three sums
solveMockSums(variableCoeff, leftConstant, rightConstant) ==
  IF RLess(RAbs(variableCoeff), Rat(1, 1000))
  THEN RInt(0)
  ELSE Rat(MathRound(RMul(RDiv(RSub(rightConstant, leftConstant), variableCoeff),
                          RInt(1000))), 1000)

solveMockEquation(equation) ==
  solveMockSums(SumCoefficients(equation.left.terms, 1, FALSE),
                SumCoefficients(equation.left.terms, 1, TRUE),
                SumCoefficients(equation.right.terms, 1, TRUE))

\* the Solution that backend solve returns for a variable and a value
backendSolution(variable, value) ==
  [variable |-> variable, value |-> value, steps |-> <<>>,
   verificationsSteps |->
     <<[leftSideResult |-> RAdd(RMul(value, RInt(2)), RInt(3)),
        rightSideResult |-> RInt(7),
        isValid |-> RLess(RAbs(RSub(RAdd(RMul(value, RInt(2)), RInt(3)), RInt(7))),
                          Rat(1, 1000))]>>,
   solutionMethod |-> "direct_isolation",
   confidence |-> Rat(95, 100)]

\* EquationEngine.solve of the backend
backendSolve(equation) ==
  backendSolution(IF Len(equation.variables) > 0 THEN equation.variables[1] ELSE <<"x">>,
                  solveMockEquation(equation))

\* a Step as far as the service reads it
BackendStep(id, type, description) == [id |-> id, type |-> type, description |-> description]

\* EquationEngine.generateSteps of the backend
backendGenerateSteps(equation, time) ==
  [steps |->
     <<BackendStep(<<"step_">> \o NumToStr(time) \o <<"_1">>, "transposition",
                   "Transponer término constante al lado derecho"),
       BackendStep(<<"step_">> \o NumToStr(time) \o <<"_2">>, "isolation",
                   "Aislar la variable dividiendo entre su coeficiente")>>,
   isOptimal |-> TRUE, estimatedTime |-> 90, alternativeExists |-> FALSE]

(***************************************************************************)
(* EquationService helpers, DatabaseService, CacheService, AnalyticsService *)
(***************************************************************************)
\* one round of the loop of hashString on the 32-bit hash kept as two
\* 16-bit halves: hash = ((hash << 5) - hash) + char; hash = hash & hash
HashStepLo(lo, code) == (31 * lo + code) % 65536
HashStepHi(hi, lo, code) == (31 * hi + (31 * lo + code) \div 65536) % 65536

RECURSIVE HashFrom(_, _, _, _)
HashFrom(str, i, hi, lo) ==
  IF i > Len(str)
  THEN <<hi, lo>>
  ELSE HashFrom(str, i + 1, HashStepHi(hi, lo, charCodeAt(str[i])),
                HashStepLo(lo, charCodeAt(str[i])))

\* Math.abs of the signed 32-bit number whose two's complement halves are h
AbsInt32(h) ==
  IF h[1] < 32768 THEN h
  ELSE IF h[2] = 0 THEN <<65536 - h[1], 0>>
  ELSE <<65535 - h[1], 65536 - h[2]>>

\* the decimal text of the result is kept as the two halves of the number
hashString(str) == AbsInt32(HashFrom(str, 1, 0, 0))

generateCacheKey(input) ==
  <<"equation:">> \o
  hashString(SelectSeq(toLowerCase(input), LAMBDA ch : ch \notin Whitespace))

\* the messages of the errors the service throws
PermissionMessage == <<"No tienes permisos para acceder a esta ecuación">>
ParseFailureMessage == <<"No se pudo parsear la ecuación">>
NotFoundMessage(equationId) == <<"Equation ">> \o equationId \o <<" not found">>

\* the rejection of an Analytics call that fails
AnalyticsFailure == <<"analytics recording failed">>

\* DatabaseService: db is mockData, its keys `equation_<id>`, `solution_<id>`
\* and `steps_<id>` kept as one map per prefix
saveEquation(db, data) == [db EXCEPT !.equation = (data.id :> data) @@ @]

saveSolution(db, equationId, solution) ==
  [db EXCEPT !.solution = (equationId :> solution) @@ @]

saveSteps(db, equationId, steps) == [db EXCEPT !.steps = (equationId :> steps) @@ @]

\* the reads answer [threw, error, value]: a thrown Error or the value returned
databaseGetEquation(db, equationId) ==
  IF equationId \notin DOMAIN db.equation
  THEN [threw |-> TRUE, error |-> NotFoundMessage(equationId), value |-> NULL]
  ELSE [threw |-> FALSE, error |-> <<>>, value |-> Some(db.equation[equationId].ast)]

databaseGetSolution(db, equationId) ==
  IF equationId \notin DOMAIN db.solution
  THEN [threw |-> FALSE, error |-> <<>>,
        value |-> Some([variable |-> <<"x">>, value |-> RInt(2), steps |-> <<>>,
                        verificationsSteps |->
                          <<[leftSideResult |-> RInt(7), rightSideResult |-> RInt(7),
                             isValid |-> TRUE]>>,
                        solutionMethod |-> "direct_isolation",
                        confidence |-> Rat(95, 100)])]
  ELSE [threw |-> FALSE, error |-> <<>>, value |-> Some(db.solution[equationId])]

databaseGetSteps(db, equationId) ==
  IF equationId \notin DOMAIN db.steps
  THEN [threw |-> FALSE, error |-> <<>>,
        value |-> Some(<<BackendStep(<<"default_step_1">>, "transposition",
                                     "Transponer término constante"),
                         BackendStep(<<"default_step_2">>, "isolation",
                                     "Aislar la variable")>>)]
  ELSE [threw |-> FALSE, error |-> <<>>, value |-> Some(db.steps[equationId])]

userHasAccessToEquation(db, userId, equationId) ==
  /\ equationId \in DOMAIN db.equation
  /\ (db.equation[equationId].userId = userId \/ userId = "test-user-123")

\* a mutant of CacheService.get that never looks at the expiry
cacheGet_neverExpires(cache, key, time) ==
  IF key \notin DOMAIN cache
  THEN [value |-> NULL, cache |-> cache]
  ELSE [value |-> Some(cache[key].value), cache |-> cache]

\* CacheService.get at Date.now() = time: the value handed back (NULL for
\* null) and the map afterwards, an expired entry being removed
cacheGet(cache, key, time) ==
  IF key \notin DOMAIN cache
  THEN [value |-> NULL, cache |-> cache]
  ELSE IF time > cache[key].expiry
       THEN [value |-> NULL, cache |-> [k \in DOMAIN cache \ {key} |-> cache[k]]]
       ELSE [value |-> Some(cache[key].value), cache |-> cache]

\* CacheService.set; the JSON round trip copies the records of the model as
\* they are
cacheSet(cache, key, value, expireInSeconds, time) ==
  (key :> [value |-> value, expiry |-> time + expireInSeconds * 1000]) @@ cache

\* AnalyticsService: the events of the three record calls the service makes
AccessEvent(equationId, accessType) ==
  [eventType |-> "equation_accessed",
   data |-> [equationId |-> equationId, accessType |-> accessType]]

CreationEvent(equationId, ast) ==
  [eventType |-> "equation_created",
   data |-> [equationId |-> equationId, equationType |-> ast.equationType,
             complexity |-> ast.complexity, variables |-> ast.variables,
             estimatedSteps |-> ast.metadata.estimatedSteps]]

ErrorEvent(operation, errorMessage) ==
  [eventType |-> "error_occurred",
   data |-> [operation |-> operation, errorMessage |-> errorMessage]]

recordEvent(log, userId, event) == [log EXCEPT ![userId] = Append(@, event)]

\* the operation name a service method tags its errors with
OperationName(op) ==
  CASE op = "processEquation" -> "equation_processing"
    [] op = "getEquation" -> "equation_retrieval"
    [] op = "validateStudentStep" -> "step_validation"
    [] op = "generateSimilarEquation" -> "similar_equation_generation"
    [] OTHER -> op

\* a call as issued: the locals of the method are filled in as it runs
NewCall(op, userId, rawInput, equationId) ==
  [op |-> op, userId |-> userId, input |-> rawInput, equationId |-> equationId,
   pc |-> "start", cacheKey |-> <<>>, cached |-> NULL, parseResult |-> NULL,
   solution |-> NULL, steps |-> NULL, hasAccess |-> FALSE, existed |-> FALSE,
   equation |-> NULL, error |-> <<>>, result |-> NULL,
   attemptedStep |-> NULL, stepIndex |-> 0, difficulty |-> "same", child |-> 0,
   issuedAt |-> -1, storedAt |-> -1, returnedAt |-> -1]

\* EquationEngine.validateStep of the backend: a step is valid when some
\* expected step has its type
backendValidateStep(equation, attemptedStep, expectedSteps) ==
  [isValid |-> \E k \in 1..Len(expectedSteps) : expectedSteps[k].type = attemptedStep.type,
   errors |-> IF \E k \in 1..Len(expectedSteps) : expectedSteps[k].type = attemptedStep.type
              THEN <<>>
              ELSE <<addError("syntax_error", "El tipo de paso no coincide con lo esperado",
                              "medium")>>,
   warnings |-> <<>>,
   suggestions |-> IF \E k \in 1..Len(expectedSteps) :
                        expectedSteps[k].type = attemptedStep.type
                   THEN <<>>
                   ELSE <<"Revisa la secuencia de pasos sugerida",
                          "Asegúrate de seguir el orden lógico de resolución">>]

\* description.length of the step descriptions that occur
DescriptionLength(description) ==
  CASE description = "Transponer término constante al lado derecho" -> 44
    [] description = "Aislar la variable dividiendo entre su coeficiente" -> 50
    [] description = "Transponer término constante" -> 28
    [] description = "Aislar la variable" -> 18
    [] description = "Distribuir" -> 10

\* stepsAreEquivalent: equal normalized descriptions, else equal types
stepsAreEquivalent(step1, step2) ==
  step1.description = step2.description \/ step1.type = step2.type

\* isStepCorrect(attempted, expected) for an expected step that exists
isStepCorrect(attempted, expected) ==
  attempted.type = expected.type /\ stepsAreEquivalent(attempted, expected)

\* the TypeError of reading `.type` of expectedSteps[currentStepIndex] when
\* the index is past the end of the array
UndefinedTypeMessage == <<"Cannot read properties of undefined (reading 'type')">>

analyzeStepError(expected, attempted) ==
  IF expected.type # attempted.type
  THEN "wrong_operation"
  ELSE IF 2 * DescriptionLength(attempted.description) < DescriptionLength(expected.description)
       THEN "incomplete"
       ELSE "calculation_error"

getOperationDescription(operationType) ==
  CASE operationType = "transposition" -> "transponer términos al otro lado"
    [] operationType = "combination" -> "combinar términos semejantes"
    [] operationType = "distribution" -> "aplicar la propiedad distributiva"
    [] operationType = "isolation" -> "aislar la variable"
    [] operationType = "multiplication" -> "multiplicar ambos lados"
    [] operationType = "division" -> "dividir ambos lados"
    [] OTHER -> operationType

\* generateHint: the hint of the error type, as the pieces of its text
generateHint(expectedStep, attemptedStep) ==
  CASE analyzeStepError(expectedStep, attemptedStep) = "wrong_operation" ->
         <<"Recuerda que en este paso necesitas ", getOperationDescription(expectedStep.type)>>
    [] analyzeStepError(expectedStep, attemptedStep) = "incomplete" ->
         <<"El paso está incompleto, asegúrate de aplicar la operación a ambos lados">>
    [] OTHER ->
         <<"Revisa tus cálculos, el procedimiento es correcto pero hay un error aritmético">>

\* the multiplier createCoefficientVariation draws with Math.random(): two
\* values of each range [0.5, 0.8), [0.8, 1.2), [1.2, 2.0)
Multipliers(difficulty) ==
  CASE difficulty = "easier" -> {Rat(1, 2), Rat(3, 4)}
    [] difficulty = "same" -> {Rat(4, 5), RInt(1)}
    [] difficulty = "harder" -> {Rat(3, 2), Rat(19, 10)}

\* the terms of one side with Math.round(coefficient * multiplier) in the
\* constant terms (or in the other terms)
ScaleTerms(terms, multiplier, constants) ==
  [k \in 1..Len(terms) |->
     IF terms[k].isConstant = constants
     THEN [terms[k] EXCEPT !.coefficient = RInt(MathRound(RMul(@, multiplier)))]
     ELSE terms[k]]

\* createCoefficientVariation; metadata.id and timestamp of the copy are not
\* read by any caller
createCoefficientVariation(equation, multiplier) ==
  [equation EXCEPT !.left.terms = ScaleTerms(@, multiplier, FALSE),
                   !.right.terms = ScaleTerms(@, multiplier, TRUE)]

\* the text formatSide gives term number index (from 1) of a side; the
\* coefficients of stored ASTs are integers
formatTerm(term, index) ==
  (IF index > 1
   THEN (IF RLess(term.coefficient, RInt(0)) THEN <<" ", "-", " ">> ELSE <<" ", "+", " ">>)
   ELSE (IF RLess(term.coefficient, RInt(0)) THEN <<"-">> ELSE <<>>))
  \o (IF term.isConstant
      THEN NumToStr(RAbs(term.coefficient).n)
      ELSE IF RAbs(term.coefficient) = RInt(1)
           THEN term.variable
           ELSE NumToStr(RAbs(term.coefficient).n) \o term.variable)

RECURSIVE FormatTermsFrom(_, _)
FormatTermsFrom(terms, index) ==
  IF index > Len(terms)
  THEN <<>>
  ELSE formatTerm(terms[index], index) \o FormatTermsFrom(terms, index + 1)

formatSide(terms) == IF Len(terms) = 0 THEN <<"0">> ELSE FormatTermsFrom(terms, 1)

formatEquationString(equation) ==
  formatSide(equation.left.terms) \o <<" ", "=", " ">> \o formatSide(equation.right.terms)

\* DatabaseService.recordStepAttempt at Date.now() = time
recordStepAttempt(db, data, time) ==
  [db EXCEPT !.attempt = (<<data.equationId, data.stepIndex, time>> :> data) @@ @]

\* AnalyticsService.getAttemptNumber
getAttemptNumber(log, userId, equationId, stepIndex) ==
  Cardinality({k \in 1..Len(log[userId]) :
                 /\ log[userId][k].eventType = "step_attempted"
                 /\ log[userId][k].data.equationId = equationId
                 /\ log[userId][k].data.stepIndex = stepIndex}) + 1

StepAttemptEvent(log, userId, equationId, stepIndex, isCorrect) ==
  [eventType |-> "step_attempted",
   data |-> [equationId |-> equationId, stepIndex |-> stepIndex, isCorrect |-> isCorrect,
             attemptNumber |-> getAttemptNumber(log, userId, equationId, stepIndex)]]

SimilarEvent(baseEquationId, newEquationId) ==
  [eventType |-> "similar_equation_generated",
   data |-> [baseEquationId |-> baseEquationId, newEquationId |-> newEquationId]]

(***************************************************************************)
(* ExpressionEvaluator and StepGenerator (frontend)                        *)
(***************************************************************************)
\* ExpressionEvaluator.getConstantTerm
RECURSIVE getConstantTermFrom(_, _)
getConstantTermFrom(terms, i) ==
  IF i > Len(terms) THEN RInt(0)
  ELSE RAdd(IF terms[i].isConstant THEN terms[i].coefficient ELSE RInt(0),
            getConstantTermFrom(terms, i + 1))

getConstantTerm(expression) == getConstantTermFrom(expression.terms, 1)

\* ExpressionEvaluator.getVariableCoefficient; variable <<>> is `undefined`,
\* which `term.variable === variable` matches against the constant terms
getVariableCoefficient(expression, variable) ==
  VariableCoeffFrom(expression.terms, 1, variable)

\* a mutant of simplifyExpression in which a group keeps the coefficient of
\* its first term
simplifyExpression_keepFirst(expression) ==
  IF Len(expression.terms) = 0
  THEN expression
  ELSE [expression EXCEPT
          !.terms = SelectSeq(
                      [i \in 1..Len(expression.terms) |->
                         IF \E j \in 1..(i - 1) :
                              TermKey(expression.terms[j]) = TermKey(expression.terms[i])
                         THEN [expression.terms[i] EXCEPT !.coefficient = RInt(0)]
                         ELSE expression.terms[i]],
                      LAMBDA term : AboveEps(term.coefficient)),
          !.simplified = TRUE]

\* ExpressionEvaluator.simplifyExpression: groups by `term.variable ||
\* 'constant'` in insertion order, sums the coefficients of a group and drops
\* the groups whose sum is within 1e-10 of zero
simplifyExpression(expression) ==
  IF Len(expression.terms) = 0
  THEN expression
  ELSE [expression EXCEPT
          !.terms = SelectSeq(CombineFrom(expression.terms, 1, <<>>),
                              LAMBDA term : AboveEps(term.coefficient)),
          !.simplified = TRUE]

\* mathUtils.groupTermsByType: the key of a term
TypeKey(term) ==
  IF term.isConstant THEN <<<<>>, 0>>
  ELSE <<term.variable, IF term.exponent = 0 THEN 1 ELSE term.exponent>>

RECURSIVE SumOfCoefficients(_, _)
SumOfCoefficients(group, i) ==
  IF i > Len(group) THEN RInt(0)
  ELSE RAdd(group[i].coefficient, SumOfCoefficients(group, i + 1))

\* what simplifyTerms pushes for the groups whose first term is at i or
\* later: a group of one term as it is, a larger one combined unless its
\* coefficient is zero (the terms of a group are like terms, so combineTerms
\* does not throw)
RECURSIVE SimplifyGroupsFrom(_, _)
SimplifyGroupsFrom(terms, i) ==
  IF i > Len(terms)
  THEN <<>>
  ELSE IF \E j \in 1..(i - 1) : TypeKey(terms[j]) = TypeKey(terms[i])
  THEN SimplifyGroupsFrom(terms, i + 1)
  ELSE LET group == SelectSeq(terms, LAMBDA t : TypeKey(t) = TypeKey(terms[i]))
       IN  (IF Len(group) = 1
            THEN <<group[1]>>
            ELSE IF BelowEps(SumOfCoefficients(group, 1))
            THEN <<>>
            ELSE <<[terms[i] EXCEPT !.coefficient = SumOfCoefficients(group, 1)]>>)
           \o SimplifyGroupsFrom(terms, i + 1)

\* mathUtils.simplifyTerms
simplifyTerms(terms) == SimplifyGroupsFrom(terms, 1)

multiplyByScalar(expression, scalar) ==
  [expression EXCEPT
     !.terms = [k \in 1..Len(expression.terms) |->
                  [expression.terms[k] EXCEPT !.coefficient = RMul(@, scalar)]],
     !.simplified = FALSE]

\* a Step without its id, texts and hints; an expression is Some(e), or NULL
\* for `undefined`
MakeStep(type, fromExpression, toExpression, difficulty) ==
  [type |-> type, fromExpression |-> fromExpression, toExpression |-> toExpression,
   difficulty |-> difficulty]

createTranspositionStep(equation) ==
  MakeStep("transposition", Some(equation.left), Some(simplifyExpression(equation.left)), 2)

createIsolatedExpression(equation) ==
  [terms |-> <<[coefficient |-> RInt(1),
                variable |-> IF Len(equation.variables) > 0 THEN equation.variables[1]
                             ELSE <<>>,
                exponent |-> 1, isConstant |-> FALSE]>>,
   simplified |-> TRUE]

createIsolationStep(equation) ==
  MakeStep("isolation", Some(equation.left), Some(createIsolatedExpression(equation)), 2)

createCombinationStep(equation) ==
  MakeStep("combination", Some(equation.left), Some(simplifyExpression(equation.left)), 1)

createDistributiveStep(equation) ==
  MakeStep("distribution", Some(equation.left), Some(simplifyExpression(equation.left)), 3)

createClearFractionsStep(equation) ==
  MakeStep("multiplication", Some(equation.left),
           Some(multiplyByScalar(equation.left, RInt(2))), 4)

createVariableTranspositionStep(equation) ==
  MakeStep("transposition", Some(equation.left), Some(simplifyExpression(equation.left)), 2)

createConstantTranspositionStep(equation) ==
  MakeStep("transposition", Some(equation.left), Some(simplifyExpression(equation.left)), 2)

needsTermTransposition(equation) ==
  \/ AboveEps(getConstantTerm(equation.right))
  \/ AboveEps(getVariableCoefficient(equation.right,
                IF Len(equation.variables) > 0 THEN equation.variables[1] ELSE <<>>))

needsTermCombination(equation) ==
  LET variableTerms(terms) == Len(SelectSeq(terms, LAMBDA t : ~t.isConstant))
      constantTerms(terms) == Len(SelectSeq(terms, LAMBDA t : t.isConstant))
  IN  \/ variableTerms(equation.left.terms) > 1
      \/ constantTerms(equation.left.terms) > 1
      \/ variableTerms(equation.right.terms) > 1
      \/ constantTerms(equation.right.terms) > 1

needsDistribution(equation) ==
  LET allTerms == equation.left.terms \o equation.right.terms
  IN  \E k \in 1..Len(allTerms) :
         ~allTerms[k].isConstant /\ RLess(RInt(1), RAbs(allTerms[k].coefficient))

hasAlternativeMethod(equation) ==
  equation.equationType \in {"distributive", "complex", "fractional"}

\* what a private generator hands back: the steps, or the TypeError that
\* reading a property of `undefined` raised
Generated(steps) == [threw |-> FALSE, steps |-> steps]
Raised == [threw |-> TRUE, steps |-> <<>>]

\* a mutant of generateBasicSteps that transposes whatever the right side is
generateBasicSteps_alwaysTranspose(equation, missing) ==
  IF "right" \in missing \/ "variables" \in missing
  THEN Raised
  ELSE IF "left" \in missing
  THEN Raised
  ELSE Generated(<<createTranspositionStep(equation), createIsolationStep(equation)>>)

\* missing is the set of the properties the AST object lacks; reading
\* `equation.left.terms`, `equation.right.terms` or `equation.variables[0]`
\* of such an object raises a TypeError
generateBasicSteps(equation, missing) ==
  IF "right" \in missing \/ "variables" \in missing
  THEN Raised
  ELSE IF "left" \in missing
  THEN Raised
  ELSE Generated((IF needsTermTransposition(equation)
                  THEN <<createTranspositionStep(equation)>> ELSE <<>>)
                 \o <<createIsolationStep(equation)>>)

generateStandardSteps(equation, missing) ==
  IF "left" \in missing \/ "right" \in missing
  THEN Raised
  ELSE IF "variables" \in missing
  THEN Raised
  ELSE Generated((IF needsTermCombination(equation)
                  THEN <<createCombinationStep(equation)>> ELSE <<>>)
                 \o <<createVariableTranspositionStep(equation),
                      createConstantTranspositionStep(equation),
                      createIsolationStep(equation)>>)

generateDistributiveSteps(equation, missing) ==
  IF "left" \in missing \/ "right" \in missing
  THEN Raised
  ELSE LET remainingSteps == generateStandardSteps(equation, missing)
       IN  IF remainingSteps.threw
           THEN Raised
           ELSE Generated((IF needsDistribution(equation)
                           THEN <<createDistributiveStep(equation)>> ELSE <<>>)
                          \o <<createCombinationStep(equation)>>
                          \o remainingSteps.steps)

generateComplexSteps(equation, missing) == generateDistributiveSteps(equation, missing)

generateFractionalSteps(equation, missing) ==
  IF "left" \in missing
  THEN Raised
  ELSE LET remainingSteps == generateStandardSteps(equation, missing)
       IN  IF remainingSteps.threw
           THEN Raised
           ELSE Generated(<<createClearFractionsStep(equation)>> \o remainingSteps.steps)

analyzeAndGenerateSteps(equation, missing) ==
  CASE equation.equationType = "basic" -> generateBasicSteps(equation, missing)
    [] equation.equationType = "standard" -> generateStandardSteps(equation, missing)
    [] equation.equationType = "distributive" -> generateDistributiveSteps(equation, missing)
    [] equation.equationType = "complex" -> generateComplexSteps(equation, missing)
    [] equation.equationType = "fractional" -> generateFractionalSteps(equation, missing)
    [] OTHER -> generateStandardSteps(equation, missing)

timePerStep(type) ==
  CASE type = "transposition" -> 45
    [] type = "combination" -> 30
    [] type = "distribution" -> 60
    [] type = "isolation" -> 30
    [] type = "multiplication" -> 50
    [] OTHER -> 40

RECURSIVE estimateTimeFrom(_, _)
estimateTimeFrom(steps, i) ==
  IF i > Len(steps) THEN 0
  ELSE timePerStep(steps[i].type) * steps[i].difficulty + estimateTimeFrom(steps, i + 1)

estimateTimeForSteps(steps) == estimateTimeFrom(steps, 1)

FallbackEstimatedTime == 300

generateFallbackSteps(equation, missing) ==
  <<MakeStep("combination",
             IF "left" \in missing THEN NULL ELSE Some(equation.left),
             IF "right" \in missing THEN NULL ELSE Some(equation.right), 1)>>

\* a mutant of generateOptimalSequence without its catch block
generateOptimalSequence_uncaught(equation, missing, analysis) ==
  [threw |-> analysis.threw, steps |-> analysis.steps, isOptimal |-> TRUE,
   estimatedTime |-> estimateTimeForSteps(analysis.steps),
   alternativeExists |-> hasAlternativeMethod(equation)]

\* StepGenerator.generateOptimalSequence; analysis is what the try block's
\* analyzeAndGenerateSteps(equation) came to
generateOptimalSequence(equation, missing, analysis) ==
  IF ~analysis.threw
  THEN [threw |-> FALSE, steps |-> analysis.steps, isOptimal |-> TRUE,
        estimatedTime |-> estimateTimeForSteps(analysis.steps),
        alternativeExists |-> hasAlternativeMethod(equation)]
  ELSE [threw |-> FALSE, steps |-> generateFallbackSteps(equation, missing),
        isOptimal |-> FALSE, estimatedTime |-> FallbackEstimatedTime,
        alternativeExists |-> FALSE]

(***************************************************************************)
(* EquationValidator.validateStudentStep (frontend)                        *)
(***************************************************************************)
\* a substitution maps each of its variables to a number
evaluateTermWithMultipleVars(term, substitutions) ==
  IF term.isConstant
  THEN [ok |-> TRUE, value |-> term.coefficient]
  ELSE IF term.variable = <<>> \/ term.variable \notin DOMAIN substitutions
       THEN [ok |-> FALSE, value |-> RInt(0)]
       ELSE [ok |-> TRUE,
             value |-> RMul(term.coefficient,
                            RPow(substitutions[term.variable],
                                 IF term.exponent = 0 THEN 1 ELSE term.exponent))]

RECURSIVE EvaluateMultipleFrom(_, _, _, _)
EvaluateMultipleFrom(terms, i, substitutions, result) ==
  IF i > Len(terms)
  THEN [ok |-> TRUE, value |-> result]
  ELSE LET termValue == evaluateTermWithMultipleVars(terms[i], substitutions)
       IN  IF ~termValue.ok
           THEN [ok |-> FALSE, value |-> RInt(0)]
           ELSE EvaluateMultipleFrom(terms, i + 1, substitutions,
                                     RAdd(result, termValue.value))

\* ok = FALSE when the evaluation throws
evaluateWithMultipleSubstitutions(expression, substitutions) ==
  EvaluateMultipleFrom(expression.terms, 1, substitutions, RInt(0))

\* equivalent is the returned boolean; ok = FALSE when an evaluation throws
\* before a differing value is found
RECURSIVE EquivalentFrom(_, _, _, _)
EquivalentFrom(expr1, expr2, testValues, i) ==
  IF i > Len(testValues)
  THEN [ok |-> TRUE, equivalent |-> TRUE]
  ELSE LET result1 == evaluateWithMultipleSubstitutions(expr1, testValues[i])
           result2 == evaluateWithMultipleSubstitutions(expr2, testValues[i])
       IN  IF ~result1.ok \/ ~result2.ok
           THEN [ok |-> FALSE, equivalent |-> FALSE]
           ELSE IF AboveEps(RSub(result1.value, result2.value))
           THEN [ok |-> TRUE, equivalent |-> FALSE]
           ELSE EquivalentFrom(expr1, expr2, testValues, i + 1)

areExpressionsEquivalent(expr1, expr2, testValues) ==
  EquivalentFrom(expr1, expr2, testValues, 1)

\* the loop only evaluates both sides; it returns true unless an
\* evaluation throws
validateTranspositionStep(equation, testValues) ==
  [ok |-> \A i \in 1..Len(testValues) :
             /\ evaluateWithMultipleSubstitutions(equation.left, testValues[i]).ok
             /\ evaluateWithMultipleSubstitutions(equation.right, testValues[i]).ok,
   equivalent |-> TRUE]

validateCombinationStep(step, testValues) ==
  areExpressionsEquivalent(step.fromExpression[1], step.toExpression[1], testValues)

validateDistributionStep(step, testValues) ==
  areExpressionsEquivalent(step.fromExpression[1], step.toExpression[1], testValues)

validateIsolationStep(step) ==
  LET variableTerms == SelectSeq(step.toExpression[1].terms, LAMBDA term : ~term.isConstant)
  IN  /\ Len(variableTerms) = 1
      /\ BelowEps(RSub(variableTerms[1].coefficient, RInt(1)))

\* testValues is what generateTestValues(equation.variables, 5) returned;
\* an exception inside the try block makes the step invalid
validateMathematicalStep(equation, step, testValues) ==
  CASE step.type = "transposition" ->
         LET r == validateTranspositionStep(equation, testValues) IN r.ok /\ r.equivalent
    [] step.type = "combination" ->
         LET r == validateCombinationStep(step, testValues) IN r.ok /\ r.equivalent
    [] step.type = "distribution" ->
         LET r == validateDistributionStep(step, testValues) IN r.ok /\ r.equivalent
    [] step.type = "isolation" -> validateIsolationStep(step)
    [] OTHER -> TRUE

\* the fixed test values of stepsAreEquivalent: x = 1, 2, -1
SequenceTestValues ==
  <<[v \in {<<"x">>} |-> RInt(1)], [v \in {<<"x">>} |-> RInt(2)],
    [v \in {<<"x">>} |-> RInt(-1)]>>

validatorStepsAreEquivalent(step1, step2) ==
  /\ step1.type = step2.type
  /\ LET r == areExpressionsEquivalent(step1.toExpression[1], step2.toExpression[1],
                                       SequenceTestValues)
     IN  r.ok /\ r.equivalent

isStepInExpectedSequence(attemptedStep, expectedSteps) ==
  \E k \in 1..Len(expectedSteps) :
     /\ expectedSteps[k].type = attemptedStep.type
     /\ validatorStepsAreEquivalent(expectedSteps[k], attemptedStep)

canBeSimplified(expression) ==
  /\ Len(expression.terms) >= 2
  /\ \E i, j \in 1..Len(expression.terms) :
        i # j /\ TermKey(expression.terms[i]) = TermKey(expression.terms[j])

\* the warnings validateStepComplexity pushes
validateStepComplexity(step) ==
  (IF step.difficulty > 4 THEN <<"high_complexity">> ELSE <<>>)
  \o (IF step.type = "combination" /\ canBeSimplified(step.toExpression[1])
      THEN <<"can_be_simplified">> ELSE <<>>)

generateStepSuggestions(attemptedStep, expectedSteps) ==
  (IF Len(expectedSteps) > 0 /\ attemptedStep.type # expectedSteps[1].type
   THEN <<"next_step">> ELSE <<>>)
  \o (IF attemptedStep.difficulty > 3 THEN <<"split_step">> ELSE <<>>)

\* EquationValidator.validateStudentStep; errors, warnings and suggestions
\* are listed by their type
validateStudentStep(currentEquation, attemptedStep, expectedSteps, testValues) ==
  [isValid |-> validateMathematicalStep(currentEquation, attemptedStep, testValues),
   errors |-> IF validateMathematicalStep(currentEquation, attemptedStep, testValues)
              THEN <<>> ELSE <<"syntax_error">>,
   warnings |-> (IF isStepInExpectedSequence(attemptedStep, expectedSteps)
                 THEN <<>> ELSE <<"unusual_format">>)
                \o validateStepComplexity(attemptedStep),
   suggestions |-> generateStepSuggestions(attemptedStep, expectedSteps)]

(***************************************************************************)
(* State                                                                   *)
(***************************************************************************)
VARIABLES
  input,          \* the string handed to the parser and to the engine
  form,           \* the generated equation input was formatted from, or NoForm
  parserResult,   \* NULL, or Some(result of AlgebraicParser.parseEquation(input))
  parseResult,    \* NULL, or Some(result of EquationEngine.parse(input))
  equation,       \* NULL, or Some(the AST that solve is called with)
  solution,       \* NULL, or Some(outcome of EquationEngine.solve(equation))
  now,            \* Date.now() of the backend process
  mockData,       \* DatabaseService.mockData, one map per key prefix
  mockCache,      \* CacheService.mockCache: key -> [value, expiry]
  events,         \* AnalyticsService.events: userId -> sequence of events
  analytics,      \* how the Analytics collaborator answers a record call
  calls,          \* the calls issued to the backend so far, in issue order
  missingProps,   \* the properties deleted from the AST handed to generateSteps
  stepSequence,   \* NULL, or Some(result of StepGenerator.generateOptimalSequence)
  stepValidation, \* NULL, or Some(a validateStep call and what it returned)
  mockSolution,   \* NULL, or Some(result of the backend EquationEngine.solve)
  termList,       \* the terms handed to the simplifiers
  simplifiedTerms, \* NULL, or Some(what the simplifiers returned for termList)
  returnedResults, \* the ParseResults one AlgebraicParser has returned, in order
  sharedResult,   \* the index in returnedResults of the result whose arrays are
                  \* the parser's current arrays, or 0
  classification, \* NULL, or Some(what getEquationType returned for equation)
  counterEntry,   \* NULL, or Some(the CacheService.mockCache entry of the counter key)
  increments      \* the CacheService.increment calls issued so far

engineVars == <<input, form, parserResult, parseResult, equation, solution>>

serviceVars == <<now, mockData, mockCache, events, analytics, calls>>

counterVars == <<counterEntry, increments>>

toolVars == <<missingProps, stepSequence, stepValidation, mockSolution, termList,
              simplifiedTerms, returnedResults, sharedResult, classification,
              counterVars>>

vars == <<engineVars, serviceVars, toolVars>>

\* nothing has been handed to the step generator, the validator, the backend
\* engine, the simplifiers or the second parser
ToolsIdle ==
  /\ missingProps = {}
  /\ stepSequence = NULL
  /\ stepValidation = NULL
  /\ mockSolution = NULL
  /\ termList = <<>>
  /\ simplifiedTerms = NULL
  /\ returnedResults = <<>>
  /\ sharedResult = 0
  /\ classification = NULL
  /\ counterEntry = NULL
  /\ increments = <<>>

\* the users that issue requests; the last one is the id that
\* userHasAccessToEquation lets through for every stored equation
Users == {"alice", "bob", "test-user-123"}

\* the backend services right after `new EquationService()`
ServiceConstructed ==
  /\ now = 0
  /\ mockData = [equation |-> <<>>, solution |-> <<>>, steps |-> <<>>, attempt |-> <<>>]
  /\ mockCache = <<>>
  /\ events = [u \in Users |-> <<>>]
  /\ calls = <<>>

EngineInit ==
  /\ parserResult = NULL
  /\ parseResult = NULL
  /\ solution = NULL
  /\ \/ /\ input \in ArbitraryInputs \cup ExampleInputs \cup DiverseEquations
                  \cup DistributiveEquations \cup OperatorInputs
        /\ form = NoForm
        /\ equation = NULL
     \/ /\ form \in LinearForms
        /\ input = FormatForm(form)
        /\ equation = NULL
     \/ /\ input = <<>>
        /\ form = NoForm
        /\ equation \in {Some(a) : a \in GivenASTs}
  /\ ServiceConstructed
  /\ analytics = "ok"
  /\ ToolsIdle

\* AlgebraicParser.parseEquation(input)
ParserParseEquation ==
  /\ parserResult = NULL
  /\ parserResult' = Some(parseEquation(input))
  /\ UNCHANGED <<input, form, parseResult, equation, solution, serviceVars, toolVars>>

\* EquationEngine.parse(input); a non-null AST is what the caller solves next
EngineParse ==
  /\ parseResult = NULL
  /\ equation = NULL
  /\ \E result \in {parse(input)} :
        /\ parseResult' = Some(result)
        /\ equation' = result.ast
  /\ UNCHANGED <<input, form, parserResult, solution, serviceVars, toolVars>>

\* EquationEngine.solve(equation)
EngineSolve ==
  /\ equation # NULL
  /\ solution = NULL
  /\ solution' = Some(solve(equation[1]))
  /\ UNCHANGED <<input, form, parserResult, parseResult, equation, serviceVars, toolVars>>

Init == EngineInit

Next == ParserParseEquation \/ EngineParse \/ EngineSolve

Spec == Init /\ [][Next]_vars

(***************************************************************************)
(* Properties of the engine                                                *)
(***************************************************************************)
StrXPlus5Eq10 == <<"x", " ", "+", " ", "5", " ", "=", " ", "1", "0">>
Str2xEq10 == <<"2", "x", " ", "=", " ", "1", "0">>
Str2xPlus3EqXPlus8 == <<"2", "x", " ", "+", " ", "3", " ", "=", " ", "x", " ", "+", " ", "8">>
Str3xPlus2Eq8 == <<"3", "x", " ", "+", " ", "2", " ", "=", " ", "8">>
StrXPlus2 == <<"x", " ", "+", " ", "2">>

\* a - c of a generated equation
NetCoefficient(f) == LiteralValue(f.a) - LiteralValue(f.c)

SolvedTo(n) == solution[1].status = "ok" /\ solution[1].variable = <<"x">>
               /\ solution[1].value = RInt(n)

\* C1: for every input 'a v + b = c v + d' (terms possibly omitted) with
\* a - c # 0, parse succeeds and solve returns variable v with value
\* (d - b)/(a - c); the four named scenarios solve to 5, 5, 5 and 2.
C1_RoundTripSolve ==
  /\ (form # NoForm /\ NetCoefficient(form) # 0 /\ parseResult # NULL) =>
        /\ parseResult[1].ast # NULL
        /\ solution # NULL =>
              /\ solution[1].status = "ok"
              /\ solution[1].variable = <<form.v>>
              /\ solution[1].value =
                   Rat(LiteralValue(form.d) - LiteralValue(form.b), NetCoefficient(form))
  /\ (solution # NULL /\ input = StrXPlus5Eq10) => SolvedTo(5)
  /\ (solution # NULL /\ input = Str2xEq10) => SolvedTo(5)
  /\ (solution # NULL /\ input = Str2xPlus3EqXPlus8) => SolvedTo(5)
  /\ (solution # NULL /\ input = Str3xPlus2Eq8) => SolvedTo(2)

\* a generated four-term equation with a fractional solution has been solved
C1_Witness ==
  /\ form # NoForm /\ solution # NULL
  /\ form.a >= 2 /\ form.c >= 1 /\ form.b >= 1 /\ form.d >= 1
  /\ NetCoefficient(form) # 0
  /\ solution[1].status = "ok" /\ solution[1].value.d > 1

\* sum of the coefficients of the terms with variable v
RECURSIVE CoefficientSum(_, _)
CoefficientSum(terms, v) ==
  IF terms = <<>> THEN RInt(0)
  ELSE RAdd(IF Head(terms).variable = v THEN Head(terms).coefficient ELSE RInt(0),
            CoefficientSum(Tail(terms), v))

\* left-side coefficient minus right-side coefficient of the AST's variable
NetVariableCoefficient(ast) ==
  RSub(CoefficientSum(ast.left.terms, ast.variables[1]),
       CoefficientSum(ast.right.terms, ast.variables[1]))

DegenerateEquation(ast) ==
  Len(ast.variables) = 0 \/ BelowEps(NetVariableCoefficient(ast))

\* C2: solve raises an error whenever the AST has no variables or the net
\* coefficient of its variable is below 1e-10 in absolute value.
C2_DegenerateSolveFails ==
  (solution # NULL /\ DegenerateEquation(equation[1])) => solution[1].status = "error"

\* solve was called on an equation such as 'x + 1 = x + 2' and failed
C2_Witness ==
  /\ solution # NULL
  /\ Len(equation[1].variables) > 0
  /\ BelowEps(NetVariableCoefficient(equation[1]))
  /\ Len(equation[1].left.terms) = 2
  /\ solution[1].status = "error"

\* value of a term list when every variable is replaced by x
RECURSIVE SubstituteAll(_, _)
SubstituteAll(terms, x) ==
  IF terms = <<>> THEN RInt(0)
  ELSE LET t == Head(terms)
           e == IF t.exponent = 0 THEN 1 ELSE t.exponent
       IN  RAdd(IF t.variable = <<>> THEN t.coefficient ELSE RMul(t.coefficient, RPow(x, e)),
                SubstituteAll(Tail(terms), x))

ExpectedConfidence(solutionMethod) ==
  CASE solutionMethod = "direct_isolation" -> RInt(1)
    [] solutionMethod = "distribution_first" -> Rat(19, 20)
    [] solutionMethod = "cross_multiplication" -> Rat(19, 20)
    [] solutionMethod = "combination_first" -> Rat(9, 10)

\* C3: a returned Solution's isValid is true exactly when the two sides
\* differ by less than 1e-10 at the returned value; confidence is 0 when
\* isValid is false and min(1, 0.8 + method bonus), within (0, 1], otherwise.
C3_VerificationSoundness ==
  (solution # NULL /\ solution[1].status = "ok") =>
     LET s == solution[1]
         l == SubstituteAll(equation[1].left.terms, s.value)
         r == SubstituteAll(equation[1].right.terms, s.value)
     IN  /\ s.leftSideResult = l /\ s.rightSideResult = r
         /\ s.isValid <=> BelowEps(RSub(l, r))
         /\ ~s.isValid => s.confidence = RInt(0)
         /\ s.isValid => /\ s.confidence = ExpectedConfidence(s.solutionMethod)
                         /\ RLess(RInt(0), s.confidence)
                         /\ ~RLess(RInt(1), s.confidence)

\* a returned Solution whose value does not satisfy the equation
C3_Witness ==
  /\ solution # NULL /\ solution[1].status = "ok"
  /\ ~solution[1].isValid
  /\ solution[1].leftSideResult # solution[1].rightSideResult
  /\ solution[1].confidence = RInt(0)

NoEqualsCharacter(s) == \A i \in 1..Len(s) : s[i] # "="
Blank(s) == \A i \in 1..Len(s) : s[i] \in Whitespace
SymbolChars == {"+", "-", "*", "/", "=", "(", ")"}

\* no character of s starts a token
YieldsNoTokens(s) == \A i \in 1..Len(s) : s[i] \notin Digits \cup Letters \cup SymbolChars

HasErrorOfType(result, type) ==
  \E k \in 1..Len(result.errors) : result.errors[k].type = type

HasMissingEqualsError(result) ==
  \E k \in 1..Len(result.errors) :
     /\ result.errors[k].type = "syntax_error"
     /\ result.errors[k].message = "Falta el signo de igualdad (=)"

ExactlyOneSyntaxError(result) ==
  Len(result.errors) = 1 /\ result.errors[1].type = "syntax_error"

\* what the claim C4 demands of one ParseResult for the current input
C4_ResultAsClaimed(result) ==
  NoEqualsCharacter(input) =>
     /\ result.ast = NULL
     /\ Len(result.errors) >= 1
     /\ IF YieldsNoTokens(input)
        THEN HasErrorOfType(result, "empty_expression")
        ELSE HasMissingEqualsError(result)
     /\ input = StrXPlus2 => ExactlyOneSyntaxError(result)

\* C4 as stated: for an input without '=', parseEquation and
\* EquationEngine.parse both return a null AST and an empty_expression error
\* when the input yields no tokens, otherwise the missing-equals
\* syntax_error; 'x + 2' gives exactly one syntax_error.
C4_Original ==
  /\ parserResult # NULL => C4_ResultAsClaimed(parserResult[1])
  /\ parseResult # NULL => C4_ResultAsClaimed(parseResult[1])

\* C4 amended: parseEquation behaves as stated; EquationEngine.parse reports
\* empty_expression exactly for empty or whitespace-only input and reports
\* the missing-equals syntax_error for every input without '='.
C4_MissingEquals ==
  /\ parserResult # NULL => C4_ResultAsClaimed(parserResult[1])
  /\ (parseResult # NULL /\ NoEqualsCharacter(input)) =>
        /\ parseResult[1].ast = NULL
        /\ HasMissingEqualsError(parseResult[1])
        /\ HasErrorOfType(parseResult[1], "empty_expression") <=> Blank(input)
        /\ input = StrXPlus2 => ExactlyOneSyntaxError(parseResult[1])

\* both parsers ran on a non-blank input without '=' that yields no tokens
C4_Witness ==
  /\ parserResult # NULL /\ parseResult # NULL
  /\ NoEqualsCharacter(input) /\ YieldsNoTokens(input) /\ ~Blank(input)
  /\ HasErrorOfType(parserResult[1], "empty_expression")
  /\ ~HasErrorOfType(parseResult[1], "empty_expression")

\* C5: a ParseResult with a non-empty errors list has a null AST, for
\* AlgebraicParser.parseEquation and for EquationEngine.parse.
C5_NoPartialAST ==
  /\ (parserResult # NULL /\ Len(parserResult[1].errors) > 0) => parserResult[1].ast = NULL
  /\ (parseResult # NULL /\ Len(parseResult[1].errors) > 0) => parseResult[1].ast = NULL

\* 0-based positions of the invalid_character errors of a result
InvalidCharacterPositions(result) ==
  {result.errors[k].start : k \in {j \in 1..Len(result.errors) :
                                      result.errors[j].type = "invalid_character"}}

InvalidCharacterCount(result) ==
  Cardinality({k \in 1..Len(result.errors) : result.errors[k].type = "invalid_character"})

\* the '.' at 0-based position p directly follows the digits of a number
\* that has no earlier '.'
RECURSIVE IsDecimalPoint(_, _)
IsDecimalPoint(s, p) ==
  /\ s[p + 1] = "."
  /\ p >= 1 /\ s[p] \in Digits
  /\ LET q == CHOOSE q \in -1..(p - 1) :
                 /\ \A j \in (q + 1)..(p - 1) : s[j + 1] \in Digits
                 /\ q >= 0 => s[q + 1] \notin Digits
     IN  ~(q >= 0 /\ s[q + 1] = "." /\ IsDecimalPoint(s, q))

\* the tokens of a result are the text of disjoint, increasing spans
TokensInOrder(s, result) ==
  /\ \A k \in 1..Len(result.tokens) :
        LET t == result.tokens[k]
        IN  /\ 0 <= t.start /\ t.start < t.end /\ t.end <= Len(s)
            /\ t.value = SubSeq(s, t.start + 1, t.end)
  /\ \A k \in 1..(Len(result.tokens) - 1) :
        result.tokens[k].end <= result.tokens[k + 1].start

Covered(result, p) ==
  \E k \in 1..Len(result.tokens) : result.tokens[k].start <= p /\ p < result.tokens[k].end

\* what C6 demands, given which 0-based positions count as unrecognizable
TokenizeAsClaimed(s, result, unrecognizable) ==
  /\ InvalidCharacterPositions(result) = unrecognizable
  /\ InvalidCharacterCount(result) = Cardinality(unrecognizable)
  /\ TokensInOrder(s, result)
  /\ \A p \in 0..(Len(s) - 1) :
        s[p + 1] \in Digits \cup Letters \cup SymbolChars => Covered(result, p)
  /\ \A p \in unrecognizable : ~Covered(result, p)

\* C6 as stated: every character that is not whitespace, a digit, a letter
\* or one of + - * / = ( ) is skipped with one invalid_character error, and
\* all other characters are emitted as tokens in order, without overlap.
C6_Original ==
  parserResult # NULL =>
     TokenizeAsClaimed(input, parserResult[1],
        {p \in 0..(Len(input) - 1) :
            input[p + 1] \notin Whitespace \cup Digits \cup Letters \cup SymbolChars})

\* C6 amended: as stated, except that a '.' that directly follows the
\* digits of a number with no earlier '.' is part of that NUMBER token.
C6_TokenizeTotal ==
  parserResult # NULL =>
     TokenizeAsClaimed(input, parserResult[1],
        {p \in 0..(Len(input) - 1) :
            /\ input[p + 1] \notin Whitespace \cup Digits \cup Letters \cup SymbolChars
            /\ ~IsDecimalPoint(input, p)})

\* an unrecognized character was skipped between two tokens
C6_Witness ==
  /\ parserResult # NULL
  /\ \E k \in 1..Len(parserResult[1].errors) :
        /\ parserResult[1].errors[k].type = "invalid_character"
        /\ Covered(parserResult[1], parserResult[1].errors[k].start - 1)
        /\ Covered(parserResult[1], parserResult[1].errors[k].start + 1)

(***************************************************************************)
(* EquationService: the calls of the backend, one action per stretch of a  *)
(* method between two awaits                                               *)
(***************************************************************************)
\* the number of calls issued in a behaviour
MaxCalls == 2

\* the number of calls that are running at the same time
MaxInFlight == 2

\* the number of times Date.now() advances in a behaviour
MaxTicks == 1

\* the ttl processEquation caches its result with, in seconds
CacheTTLSeconds == 3600

\* the milliseconds by which Date.now() advances in one step: the time the
\* cached result of processEquation lives
TickMs == CacheTTLSeconds * 1000

\* the equations users submit: x + 5 = 10 and 2x + 3 = 7
ServiceForms ==
  { [a |-> Implicit, b |-> 5, c |-> Omitted, d |-> 10, v |-> "x"],
    [a |-> 2, b |-> 3, c |-> Omitted, d |-> 7, v |-> "x"] }

ServiceInputs == {FormatForm(f) : f \in ServiceForms}

\* an id no equation is ever saved under
UnsavedId == <<"eq_", "unsaved">>

\* the ids a request can name
RequestIds == DOMAIN mockData.equation \cup {UnsavedId}

\* a call that returned, threw, or waits on a promise that never settles
Settled == {"returned", "threw", "blocked"}

InFlight == {c \in 1..Len(calls) : calls[c].pc \notin Settled}

CanIssue == Len(calls) < MaxCalls /\ Cardinality(InFlight) < MaxInFlight

At(c, op, pc) == calls[c].op = op /\ calls[c].pc = pc

\* `await this.analytics.record...(...)` inside the try block of call c, whose
\* record is `call` when the await is reached: the event is logged and the
\* method goes on at pcNext, or the promise rejects, or it never settles
AwaitAnalytics(c, call, event, pcNext) ==
  /\ events' = IF analytics = "ok" THEN recordEvent(events, call.userId, event) ELSE events
  /\ calls' = [calls EXCEPT ![c] =
                 [call EXCEPT !.pc = CASE analytics = "ok" -> pcNext
                                        [] analytics = "throws" -> "analyticsThrew"
                                        [] OTHER -> "blocked"]]

\* a catch block that rethrows without recording the error
Catch_unrecorded(c, call, message) ==
  /\ events' = events
  /\ calls' = [calls EXCEPT ![c] = [call EXCEPT !.error = message, !.pc = "rethrow"]]

\* the catch block: `await this.analytics.recordError(...); throw error`
Catch(c, call, message) ==
  /\ events' = IF analytics = "ok"
               THEN recordEvent(events, call.userId,
                                ErrorEvent(OperationName(call.op), message))
               ELSE events
  /\ calls' = [calls EXCEPT ![c] =
                 [call EXCEPT !.error = IF analytics = "throws"
                                        THEN AnalyticsFailure ELSE message,
                              !.pc = IF analytics = "hangs" THEN "blocked" ELSE "rethrow"]]

\* processEquation up to `await this.cache.get(cacheKey)`, called by one of
\* userIds with one of rawInputs; issuedAt is Date.now() at the lookup
IssueProcessEquationOf(userIds, rawInputs) ==
  \E userId \in userIds, rawInput \in rawInputs :
    \E got \in {cacheGet(mockCache, generateCacheKey(rawInput), now)} :
      /\ mockCache' = got.cache
      /\ calls' = Append(calls,
           [NewCall("processEquation", userId, rawInput, <<>>) EXCEPT
              !.pc = "cacheGet",
              !.cacheKey = generateCacheKey(rawInput),
              !.cached = got.value,
              !.issuedAt = now])

IssueProcessEquation == IssueProcessEquationOf(Users, ServiceInputs)

CallProcessEquation ==
  /\ CanIssue
  /\ IssueProcessEquation
  /\ UNCHANGED <<now, mockData, events, analytics, engineVars, toolVars>>

\* `if (cached)`: recordEquationAccess, then return cached
ProcessCacheHit ==
  /\ \E c \in 1..Len(calls) :
       /\ At(c, "processEquation", "cacheGet")
       /\ calls[c].cached # NULL
       /\ AwaitAnalytics(c,
            [calls[c] EXCEPT !.result = calls[c].cached,
                             !.equationId = calls[c].cached[1].id],
            AccessEvent(calls[c].cached[1].id, "cache_hit"), "recorded")
  /\ UNCHANGED <<now, mockData, mockCache, analytics, engineVars, toolVars>>

\* cache miss: parse, then `await this.database.saveEquation(...)`; of the
\* record saved the model keeps what is read back
ProcessCacheMiss ==
  /\ \E c \in 1..Len(calls) :
       /\ At(c, "processEquation", "cacheGet")
       /\ calls[c].cached = NULL
       /\ \E pr \in {backendParse(calls[c].input, now)} :
            IF pr.ast = NULL
            THEN /\ Catch(c, calls[c], ParseFailureMessage)
                 /\ UNCHANGED mockData
            ELSE /\ mockData' = saveEquation(mockData,
                      [id |-> pr.ast[1].metadata.id, userId |-> calls[c].userId,
                       originalInput |-> calls[c].input, ast |-> pr.ast[1],
                       status |-> "active"])
                 /\ calls' = [calls EXCEPT ![c] =
                      [@ EXCEPT !.parseResult = Some(pr),
                                !.equationId = pr.ast[1].metadata.id,
                                !.pc = "saveEquation"]]
                 /\ UNCHANGED events
  /\ UNCHANGED <<now, mockCache, analytics, engineVars, toolVars>>

\* solve, generateSteps, then `await this.database.saveSolution(...)`
ProcessSolve ==
  /\ \E c \in 1..Len(calls) :
       /\ At(c, "processEquation", "saveEquation")
       /\ \E sol \in {backendSolve(calls[c].parseResult[1].ast[1])} :
            /\ mockData' = saveSolution(mockData, calls[c].equationId, sol)
            /\ calls' = [calls EXCEPT ![c] =
                 [@ EXCEPT !.solution = Some(sol),
                           !.steps = Some(backendGenerateSteps(
                                            calls[c].parseResult[1].ast[1], now)),
                           !.pc = "saveSolution"]]
  /\ UNCHANGED <<now, mockCache, events, analytics, engineVars, toolVars>>

\* `await this.database.saveSteps(equationId, steps.steps)`
ProcessSaveSteps ==
  /\ \E c \in 1..Len(calls) :
       /\ At(c, "processEquation", "saveSolution")
       /\ mockData' = saveSteps(mockData, calls[c].equationId, calls[c].steps[1].steps)
       /\ calls' = [calls EXCEPT ![c].pc = "saveSteps"]
  /\ UNCHANGED <<now, mockCache, events, analytics, engineVars, toolVars>>

\* the result is put together, then `await this.cache.set(cacheKey, result, 3600)`
ProcessCacheSet ==
  /\ \E c \in 1..Len(calls) :
       /\ At(c, "processEquation", "saveSteps")
       /\ \E result \in {[id |-> calls[c].equationId,
                          parseResult |-> calls[c].parseResult[1],
                          solution |-> calls[c].solution[1],
                          steps |-> calls[c].steps[1]]} :
            /\ mockCache' = cacheSet(mockCache, calls[c].cacheKey, result,
                                     CacheTTLSeconds, now)
            /\ calls' = [calls EXCEPT ![c] =
                 [@ EXCEPT !.result = Some(result), !.pc = "cacheSet",
                           !.storedAt = now]]
  /\ UNCHANGED <<now, mockData, events, analytics, engineVars, toolVars>>

\* `await this.analytics.recordEquationCreation(...)`
ProcessRecordCreation ==
  /\ \E c \in 1..Len(calls) :
       /\ At(c, "processEquation", "cacheSet")
       /\ AwaitAnalytics(c, calls[c],
            CreationEvent(calls[c].equationId, calls[c].parseResult[1].ast[1]),
            "recorded")
  /\ UNCHANGED <<now, mockData, mockCache, analytics, engineVars, toolVars>>

\* getEquation up to `await this.database.userHasAccessToEquation(...)`;
\* existed notes whether the equation was stored when access was checked
IssueGetEquation ==
  \E userId \in Users, equationId \in RequestIds :
    calls' = Append(calls,
      [NewCall("getEquation", userId, <<>>, equationId) EXCEPT
         !.pc = "accessCheck",
         !.hasAccess = userHasAccessToEquation(mockData, userId, equationId),
         !.existed = equationId \in DOMAIN mockData.equation])

CallGetEquation ==
  /\ CanIssue
  /\ IssueGetEquation
  /\ UNCHANGED <<now, mockData, mockCache, events, analytics, engineVars, toolVars>>

\* `if (!hasAccess) throw new Error(...)`, caught by the catch block
GetEquationDenied ==
  /\ \E c \in 1..Len(calls) :
       /\ At(c, "getEquation", "accessCheck")
       /\ ~calls[c].hasAccess
       /\ Catch(c, calls[c], PermissionMessage)
  /\ UNCHANGED <<now, mockData, mockCache, analytics, engineVars, toolVars>>

\* `await this.database.getEquation(equationId)`
GetEquationGranted ==
  /\ \E c \in 1..Len(calls) :
       /\ At(c, "getEquation", "accessCheck")
       /\ calls[c].hasAccess
       /\ \E r \in {databaseGetEquation(mockData, calls[c].equationId)} :
            IF r.threw
            THEN Catch(c, calls[c], r.error)
            ELSE /\ calls' = [calls EXCEPT ![c] =
                      [@ EXCEPT !.equation = r.value, !.pc = "getEquation"]]
                 /\ UNCHANGED events
  /\ UNCHANGED <<now, mockData, mockCache, analytics, engineVars, toolVars>>

\* `await this.database.getSolution(equationId)`
GetEquationSolution ==
  /\ \E c \in 1..Len(calls) :
       /\ At(c, "getEquation", "getEquation")
       /\ calls' = [calls EXCEPT ![c] =
            [@ EXCEPT !.solution = databaseGetSolution(mockData, calls[c].equationId).value,
                      !.pc = "getSolution"]]
  /\ UNCHANGED <<now, mockData, mockCache, events, analytics, engineVars, toolVars>>

\* `await this.database.getSteps(equationId)`
GetEquationSteps ==
  /\ \E c \in 1..Len(calls) :
       /\ At(c, "getEquation", "getSolution")
       /\ calls' = [calls EXCEPT ![c] =
            [@ EXCEPT !.steps = databaseGetSteps(mockData, calls[c].equationId).value,
                      !.pc = "getSteps"]]
  /\ UNCHANGED <<now, mockData, mockCache, events, analytics, engineVars, toolVars>>

\* `await this.analytics.recordEquationAccess(...)`, with the object that
\* the method returns afterwards
GetEquationRecordAccess ==
  /\ \E c \in 1..Len(calls) :
       /\ At(c, "getEquation", "getSteps")
       /\ AwaitAnalytics(c,
            [calls[c] EXCEPT !.result = Some([equation |-> calls[c].equation[1],
                                              solution |-> calls[c].solution[1],
                                              steps |-> calls[c].steps[1]])],
            AccessEvent(calls[c].equationId, "direct_access"), "recorded")
  /\ UNCHANGED <<now, mockData, mockCache, analytics, engineVars, toolVars>>

\* the return statement after the last await of the try block
Return ==
  /\ \E c \in 1..Len(calls) :
       /\ calls[c].pc = "recorded"
       /\ calls' = [calls EXCEPT ![c].pc = "returned", ![c].returnedAt = now]
  /\ UNCHANGED <<now, mockData, mockCache, events, analytics, engineVars, toolVars>>

\* an Analytics call of the try block rejected: the catch block runs
CatchAnalyticsFailure ==
  /\ \E c \in 1..Len(calls) :
       /\ calls[c].pc = "analyticsThrew"
       /\ Catch(c, calls[c], AnalyticsFailure)
  /\ UNCHANGED <<now, mockData, mockCache, analytics, engineVars, toolVars>>

\* `throw error` after recordError, or the rejection of recordError itself
Rethrow ==
  /\ \E c \in 1..Len(calls) :
       /\ calls[c].pc = "rethrow"
       /\ calls' = [calls EXCEPT ![c].pc = "threw"]
  /\ UNCHANGED <<now, mockData, mockCache, events, analytics, engineVars, toolVars>>

\* a read of DatabaseService by any of its callers, noted as a call of its
\* own: saved tells whether the key was in mockData, r is the answer
DirectRead(op, equationId, saved, r) ==
  calls' = Append(calls,
    [NewCall(op, "", <<>>, equationId) EXCEPT
       !.existed = saved,
       !.error = r.error,
       !.result = r.value,
       !.pc = IF r.threw THEN "threw" ELSE "returned"])

DatabaseGetEquation ==
  /\ CanIssue
  /\ \E equationId \in RequestIds :
       DirectRead("database.getEquation", equationId,
                  equationId \in DOMAIN mockData.equation,
                  databaseGetEquation(mockData, equationId))
  /\ UNCHANGED <<now, mockData, mockCache, events, analytics, engineVars, toolVars>>

DatabaseGetSolution ==
  /\ CanIssue
  /\ \E equationId \in RequestIds :
       DirectRead("database.getSolution", equationId,
                  equationId \in DOMAIN mockData.solution,
                  databaseGetSolution(mockData, equationId))
  /\ UNCHANGED <<now, mockData, mockCache, events, analytics, engineVars, toolVars>>

DatabaseGetSteps ==
  /\ CanIssue
  /\ \E equationId \in RequestIds :
       DirectRead("database.getSteps", equationId,
                  equationId \in DOMAIN mockData.steps,
                  databaseGetSteps(mockData, equationId))
  /\ UNCHANGED <<now, mockData, mockCache, events, analytics, engineVars, toolVars>>

\* time passes
Tick ==
  /\ now < MaxTicks * TickMs
  /\ now' = now + TickMs
  /\ UNCHANGED <<mockData, mockCache, events, analytics, calls, engineVars, toolVars>>

\* the services as constructed, with an Analytics collaborator that records,
\* rejects, or never answers
ServiceInit ==
  /\ ServiceConstructed
  /\ analytics \in {"ok", "throws", "hangs"}
  /\ ToolsIdle
  /\ input = <<>>
  /\ form = NoForm
  /\ parserResult = NULL
  /\ parseResult = NULL
  /\ equation = NULL
  /\ solution = NULL

ServiceNext ==
  \/ CallProcessEquation
  \/ ProcessCacheHit
  \/ ProcessCacheMiss
  \/ ProcessSolve
  \/ ProcessSaveSteps
  \/ ProcessCacheSet
  \/ ProcessRecordCreation
  \/ CallGetEquation
  \/ GetEquationDenied
  \/ GetEquationGranted
  \/ GetEquationSolution
  \/ GetEquationSteps
  \/ GetEquationRecordAccess
  \/ Return
  \/ CatchAnalyticsFailure
  \/ Rethrow
  \/ DatabaseGetEquation
  \/ DatabaseGetSolution
  \/ DatabaseGetSteps
  \/ Tick

SpecService == ServiceInit /\ [][ServiceNext]_vars

(***************************************************************************)
(* EquationService: the four operations of a student's session, served one *)
(* request after another                                                   *)
(***************************************************************************)
\* the requests of the second specification are served one after another
MaxRequests == 2

\* the largest stepIndex a student sends
MaxStepIndex == 3

\* the steps students attempt
AttemptedSteps ==
  { BackendStep(<<"attempt">>, "transposition",
                "Transponer término constante al lado derecho"),
    BackendStep(<<"attempt">>, "isolation", "Aislar la variable"),
    BackendStep(<<"attempt">>, "distribution", "Distribuir") }

Difficulties == {"easier", "same", "harder"}

CanRequest == Len(calls) < MaxRequests /\ InFlight = {}

RequestProcessEquation ==
  /\ CanRequest
  /\ IssueProcessEquation
  /\ UNCHANGED <<now, mockData, events, analytics, engineVars, toolVars>>

RequestGetEquation ==
  /\ CanRequest
  /\ IssueGetEquation
  /\ UNCHANGED <<now, mockData, mockCache, events, analytics, engineVars, toolVars>>

\* validateStudentStep up to `await this.database.getEquation(equationId)`
RequestValidateStudentStep ==
  /\ CanRequest
  /\ \E userId \in Users, equationId \in RequestIds,
        step \in AttemptedSteps, index \in 0..MaxStepIndex :
       \E r \in {databaseGetEquation(mockData, equationId)} :
         calls' = Append(calls,
           [NewCall("validateStudentStep", userId, <<>>, equationId) EXCEPT
              !.pc = "getEquation",
              !.existed = equationId \in DOMAIN mockData.equation,
              !.equation = r.value,
              !.error = r.error,
              !.attemptedStep = Some(step),
              !.stepIndex = index])
  /\ UNCHANGED <<now, mockData, mockCache, events, analytics, engineVars, toolVars>>

\* getEquation threw, or `await this.database.getSteps(equationId)`
ValidateGetSteps ==
  /\ \E c \in 1..Len(calls) :
       /\ At(c, "validateStudentStep", "getEquation")
       /\ IF calls[c].equation = NULL
          THEN Catch(c, calls[c], calls[c].error)
          ELSE /\ calls' = [calls EXCEPT ![c] =
                    [@ EXCEPT !.steps = databaseGetSteps(mockData, calls[c].equationId).value,
                              !.pc = "getSteps"]]
               /\ UNCHANGED events
  /\ UNCHANGED <<now, mockData, mockCache, analytics, engineVars, toolVars>>

\* what validateStudentStep returns for a validation, isCorrect and a hint
StepResult(validation, expectedSteps, stepIndex, isCorrect, nextHint) ==
  [isValid |-> validation.isValid, errors |-> validation.errors,
   warnings |-> validation.warnings, suggestions |-> validation.suggestions,
   isCorrect |-> isCorrect, nextHint |-> nextHint,
   progress |-> Rat(stepIndex + (IF isCorrect THEN 1 ELSE 0), Len(expectedSteps))]

\* the object handed to database.recordStepAttempt by call record call
AttemptData(call, isCorrect) ==
  [equationId |-> call.equationId, userId |-> call.userId, stepIndex |-> call.stepIndex,
   attemptedStep |-> call.attemptedStep[1], isCorrect |-> isCorrect, timestamp |-> now]

\* validateStep, isCorrect and progress; then `await this.generateHint(...)`
\* if a hint is due, else `await this.database.recordStepAttempt(...)`.
\* Reading `.type` of a missing expected step throws a TypeError
ValidateCheck ==
  /\ \E c \in 1..Len(calls) :
       /\ At(c, "validateStudentStep", "getSteps")
       /\ \E validation \in {backendValidateStep(calls[c].equation[1],
                               calls[c].attemptedStep[1], calls[c].steps[1])} :
            IF validation.isValid /\ calls[c].stepIndex >= Len(calls[c].steps[1])
            THEN /\ Catch(c, calls[c], UndefinedTypeMessage)
                 /\ UNCHANGED mockData
            ELSE \E isCorrect \in {validation.isValid /\
                                   isStepCorrect(calls[c].attemptedStep[1],
                                                 calls[c].steps[1][calls[c].stepIndex + 1])} :
                   /\ calls' = [calls EXCEPT ![c] =
                        [@ EXCEPT !.result = Some(StepResult(validation, calls[c].steps[1],
                                                   calls[c].stepIndex, isCorrect, NULL)),
                                  !.pc = IF ~isCorrect /\
                                            calls[c].stepIndex < Len(calls[c].steps[1])
                                         THEN "generateHint" ELSE "recordStepAttempt"]]
                   /\ mockData' = IF ~isCorrect /\ calls[c].stepIndex < Len(calls[c].steps[1])
                                  THEN mockData
                                  ELSE recordStepAttempt(mockData,
                                         AttemptData(calls[c], isCorrect), now)
                   /\ UNCHANGED events
  /\ UNCHANGED <<now, mockCache, analytics, engineVars, toolVars>>

\* the hint is in: `await this.database.recordStepAttempt(...)`
ValidateHint ==
  /\ \E c \in 1..Len(calls) :
       /\ At(c, "validateStudentStep", "generateHint")
       /\ calls' = [calls EXCEPT ![c] =
            [@ EXCEPT !.result[1].nextHint =
                        Some(generateHint(calls[c].steps[1][calls[c].stepIndex + 1],
                                          calls[c].attemptedStep[1])),
                      !.pc = "recordStepAttempt"]]
       /\ mockData' = recordStepAttempt(mockData, AttemptData(calls[c], FALSE), now)
  /\ UNCHANGED <<now, mockCache, events, analytics, engineVars, toolVars>>

\* `await this.analytics.recordStepAttempt(...)`
ValidateRecordAttempt ==
  /\ \E c \in 1..Len(calls) :
       /\ At(c, "validateStudentStep", "recordStepAttempt")
       /\ AwaitAnalytics(c, calls[c],
            StepAttemptEvent(events, calls[c].userId, calls[c].equationId,
                             calls[c].stepIndex, calls[c].result[1].isCorrect),
            "recorded")
  /\ UNCHANGED <<now, mockData, mockCache, analytics, engineVars, toolVars>>

\* generateSimilarEquation up to `await this.database.getEquation(baseEquationId)`
RequestGenerateSimilarEquation ==
  /\ CanRequest
  /\ \E userId \in Users, equationId \in RequestIds, difficulty \in Difficulties :
       \E r \in {databaseGetEquation(mockData, equationId)} :
         calls' = Append(calls,
           [NewCall("generateSimilarEquation", userId, <<>>, equationId) EXCEPT
              !.pc = "getEquation",
              !.existed = equationId \in DOMAIN mockData.equation,
              !.equation = r.value,
              !.error = r.error,
              !.difficulty = difficulty])
  /\ UNCHANGED <<now, mockData, mockCache, events, analytics, engineVars, toolVars>>

\* getEquation threw, or `await this.generateEquationVariation(...)` with
\* the multiplier that Math.random() gives
SimilarVariation ==
  /\ \E c \in 1..Len(calls) :
       /\ At(c, "generateSimilarEquation", "getEquation")
       /\ IF calls[c].equation = NULL
          THEN Catch(c, calls[c], calls[c].error)
          ELSE /\ \E multiplier \in Multipliers(calls[c].difficulty) :
                    calls' = [calls EXCEPT ![c] =
                      [@ EXCEPT !.input = formatEquationString(
                                   createCoefficientVariation(calls[c].equation[1], multiplier)),
                                !.pc = "variation"]]
               /\ UNCHANGED events
  /\ UNCHANGED <<now, mockData, mockCache, analytics, engineVars, toolVars>>

\* `await this.processEquation(variation.equation, userId)`: the inner call
\* starts, up to its `await this.cache.get(cacheKey)`
SimilarProcess ==
  /\ \E c \in 1..Len(calls) :
       /\ At(c, "generateSimilarEquation", "variation")
       /\ \E got \in {cacheGet(mockCache, generateCacheKey(calls[c].input), now)} :
            /\ mockCache' = got.cache
            /\ calls' = Append([calls EXCEPT ![c] =
                                  [@ EXCEPT !.child = Len(calls) + 1,
                                            !.pc = "processEquation"]],
                 [NewCall("processEquation", calls[c].userId, calls[c].input, <<>>) EXCEPT
                    !.pc = "cacheGet",
                    !.cacheKey = generateCacheKey(calls[c].input),
                    !.cached = got.value])
  /\ UNCHANGED <<now, mockData, events, analytics, engineVars, toolVars>>

\* the inner call threw, or it returned:
\* `await this.analytics.recordSimilarEquationGeneration(...)`
SimilarProcessed ==
  /\ \E c \in 1..Len(calls) :
       /\ At(c, "generateSimilarEquation", "processEquation")
       /\ calls[calls[c].child].pc \in {"returned", "threw"}
       /\ IF calls[calls[c].child].pc = "threw"
          THEN Catch(c, calls[c], calls[calls[c].child].error)
          ELSE AwaitAnalytics(c,
                 [calls[c] EXCEPT !.result =
                    Some([id |-> calls[calls[c].child].result[1].id,
                          equation |-> calls[c].input,
                          context |-> "Ecuación generada para práctica adicional"])],
                 SimilarEvent(calls[c].equationId, calls[calls[c].child].result[1].id),
                 "recorded")
  /\ UNCHANGED <<now, mockData, mockCache, analytics, engineVars, toolVars>>

\* the services as constructed, with the Analytics collaborator of the
\* repository, which records every event
RequestsInit ==
  /\ ServiceConstructed
  /\ analytics = "ok"
  /\ ToolsIdle
  /\ input = <<>>
  /\ form = NoForm
  /\ parserResult = NULL
  /\ parseResult = NULL
  /\ equation = NULL
  /\ solution = NULL

RequestsNext ==
  \/ RequestProcessEquation
  \/ ProcessCacheHit
  \/ ProcessCacheMiss
  \/ ProcessSolve
  \/ ProcessSaveSteps
  \/ ProcessCacheSet
  \/ ProcessRecordCreation
  \/ RequestGetEquation
  \/ GetEquationDenied
  \/ GetEquationGranted
  \/ GetEquationSolution
  \/ GetEquationSteps
  \/ GetEquationRecordAccess
  \/ RequestValidateStudentStep
  \/ ValidateGetSteps
  \/ ValidateCheck
  \/ ValidateHint
  \/ ValidateRecordAttempt
  \/ RequestGenerateSimilarEquation
  \/ SimilarVariation
  \/ SimilarProcess
  \/ SimilarProcessed
  \/ Return
  \/ Rethrow

SpecRequests == RequestsInit /\ [][RequestsNext]_vars

(***************************************************************************)
(* Properties of the backend service                                       *)
(***************************************************************************)
\* the terms of one side 'coef v + const' of a generated equation
FormTerms(coef, const, v) ==
  (IF coef = Omitted THEN <<>>
   ELSE <<[coefficient |-> RInt(LiteralValue(coef)), variable |-> <<v>>,
           isConstant |-> FALSE]>>)
  \o (IF const = Omitted THEN <<>>
      ELSE <<[coefficient |-> RInt(const), variable |-> <<>>, isConstant |-> TRUE]>>)

\* coefficient, variable and kind of each term of an expression
TermsOf(expression) ==
  [k \in 1..Len(expression.terms) |->
     [coefficient |-> expression.terms[k].coefficient,
      variable |-> expression.terms[k].variable,
      isConstant |-> expression.terms[k].isConstant]]

\* call c is a processEquation that missed the cache and returned
ProcessedFresh(c) ==
  calls[c].op = "processEquation" /\ calls[c].pc = "returned" /\ calls[c].cached = NULL

\* the result of call c is the pipeline's result for the generated equation f
PipelineResultFor(c, f) ==
  /\ TermsOf(calls[c].result[1].parseResult.ast[1].left) = FormTerms(f.a, f.b, f.v)
  /\ TermsOf(calls[c].result[1].parseResult.ast[1].right) = FormTerms(f.c, f.d, f.v)
  /\ calls[c].result[1].solution.variable = <<f.v>>
  /\ calls[c].result[1].solution.value =
       Rat(LiteralValue(f.d) - LiteralValue(f.b), NetCoefficient(f))

\* C7: processEquation runs the pipeline on the raw input it was given: on a
\* cache miss the returned AST lists the terms written in the input and the
\* returned value solves the equation written in the input
C7_PipelineOnRawInput ==
  \A c \in 1..Len(calls) :
    ProcessedFresh(c) =>
      \A f \in ServiceForms : FormatForm(f) = calls[c].input => PipelineResultFor(c, f)

\* call c is a getEquation that threw while analytics recorded the error
RefusedGetEquation(c) ==
  calls[c].op = "getEquation" /\ calls[c].pc = "threw" /\ analytics = "ok"

\* C8: getEquation tells a missing equation from one the requester may not
\* view: the caller gets the not-found error when no equation is stored under
\* the id and the permission error when it is stored but not viewable
C8_NotFoundVersusForbidden ==
  \A c \in 1..Len(calls) :
    RefusedGetEquation(c) =>
      /\ ~calls[c].existed => calls[c].error = NotFoundMessage(calls[c].equationId)
      /\ calls[c].existed => calls[c].error = PermissionMessage

\* call c is a read of DatabaseService under an id nothing was saved under
ReadOfUnsaved(c) ==
  /\ calls[c].op \in {"database.getEquation", "database.getSolution", "database.getSteps"}
  /\ ~calls[c].existed

\* C9: a read of DatabaseService under an id nothing was saved under throws
\* or returns nothing; it never returns a record
C9_UnsavedReadsNotFound ==
  \A c \in 1..Len(calls) :
    ReadOfUnsaved(c) => calls[c].pc = "threw" \/ calls[c].result = NULL

\* C10: an Analytics call that throws or never completes neither blocks nor
\* fails the operation: no call waits on analytics for ever, and a call
\* throws only the error of the operation itself, never with its result
\* already in hand
C10_AnalyticsNeverBlocksOrFails ==
  \A c \in 1..Len(calls) :
    /\ calls[c].pc # "blocked"
    /\ calls[c].pc = "threw" =>
         calls[c].result = NULL /\ calls[c].error # AnalyticsFailure

\* the operations of EquationService that C11 names
ServiceOperations ==
  {"processEquation", "getEquation", "validateStudentStep", "generateSimilarEquation"}

\* the error the try block of call c threw: the first failure on its path
OriginalError(c) ==
  CASE calls[c].op = "getEquation" ->
         IF calls[c].hasAccess THEN NotFoundMessage(calls[c].equationId)
         ELSE PermissionMessage
    [] calls[c].op = "validateStudentStep" ->
         IF calls[c].existed THEN UndefinedTypeMessage
         ELSE NotFoundMessage(calls[c].equationId)
    [] calls[c].op = "generateSimilarEquation" ->
         IF calls[c].existed THEN calls[calls[c].child].error
         ELSE NotFoundMessage(calls[c].equationId)
    [] OTHER -> ParseFailureMessage

\* the log of the user of call c holds the error event of its operation
ErrorRecorded(c) ==
  \E k \in 1..Len(events[calls[c].userId]) :
    events[calls[c].userId][k] = ErrorEvent(OperationName(calls[c].op), calls[c].error)

\* C11: whenever one of the four operations fails, an 'error_occurred' event
\* tagged with the operation is in the log of the requesting user before
\* the failure reaches the caller (from the moment the method is about to
\* rethrow), and the error rethrown is the original one
C11_ErrorRecordedBeforeRethrow ==
  \A c \in 1..Len(calls) :
    (calls[c].op \in ServiceOperations /\ calls[c].pc \in {"rethrow", "threw"}) =>
      /\ ErrorRecorded(c)
      /\ calls[c].error = OriginalError(c)
      /\ OperationName(calls[c].op) \in
           {"equation_processing", "equation_retrieval", "step_validation",
            "similar_equation_generation"}

\* a step validation and an equation retrieval have both failed
C11_Witness ==
  \E c1, c2 \in 1..Len(calls) :
    /\ calls[c1].op = "validateStudentStep" /\ calls[c1].pc = "threw"
    /\ calls[c2].op \in {"getEquation", "generateSimilarEquation"} /\ calls[c2].pc = "threw"

\* call c is a validateStudentStep on a stored equation that has ended
ValidatedStored(c) ==
  /\ calls[c].op = "validateStudentStep"
  /\ calls[c].existed
  /\ calls[c].pc \in {"returned", "threw"}

\* C17: validateStudentStep on a stored equation returns, for every
\* stepIndex >= 0, a progress of (stepIndex + (isCorrect ? 1 : 0)) / (number
\* of expected steps) that lies between 0 and 1 inclusive
C17_ProgressIsFraction ==
  \A c \in 1..Len(calls) :
    ValidatedStored(c) =>
      /\ calls[c].pc = "returned"
      /\ calls[c].result[1].progress =
           Rat(calls[c].stepIndex + (IF calls[c].result[1].isCorrect THEN 1 ELSE 0),
               Len(calls[c].steps[1]))
      /\ ~RLess(calls[c].result[1].progress, RInt(0))
      /\ ~RLess(RInt(1), calls[c].result[1].progress)

(***************************************************************************)
(* The step generator, the validators and the backend solver, called       *)
(* directly with an AST                                                    *)
(***************************************************************************)
EquationTypes == {"basic", "standard", "distributive", "complex", "fractional", "unknown"}

\* the properties an object typed EquationAST may lack at run time
ASTProperties == {"left", "right", "variables"}

\* the sides of the ASTs handed to the step generator: the linear sides of
\* GivenExpressions, a zero, two variable terms, two constant terms and a
\* side of three terms
StepExpressions ==
  {e \in GivenExpressions : \A k \in 1..Len(e) : e[k].exponent <= 1}
  \cup {<<GivenTerm(0, <<>>, 0)>>,
        <<GivenTerm(1, <<"x">>, 1), GivenTerm(2, <<"x">>, 1)>>,
        <<GivenTerm(1, <<>>, 0), GivenTerm(2, <<>>, 0)>>,
        <<GivenTerm(1, <<"x">>, 1), GivenTerm(1, <<>>, 0), GivenTerm(2, <<>>, 0)>>}

\* linear ASTs under every equationType
StepASTs ==
  {[left |-> [terms |-> l, simplified |-> FALSE],
    right |-> [terms |-> r, simplified |-> FALSE],
    metadata |-> [originalInput |-> <<>>, difficultyLevel |-> "beginner",
                  estimatedSteps |-> 0, requiredOperations |-> <<>>],
    equationType |-> t,
    variables |-> VariablesFrom(l \o r, 1, <<>>),
    complexity |-> 0] :
   l \in StepExpressions, r \in StepExpressions, t \in EquationTypes}

StepsInit ==
  /\ input = <<>>
  /\ form = NoForm
  /\ parserResult = NULL
  /\ parseResult = NULL
  /\ solution = NULL
  /\ equation \in {Some(a) : a \in StepASTs}
  /\ missingProps \in SUBSET ASTProperties
  /\ stepSequence = NULL
  /\ stepValidation = NULL
  /\ mockSolution = NULL
  /\ termList = <<>>
  /\ simplifiedTerms = NULL
  /\ returnedResults = <<>>
  /\ sharedResult = 0
  /\ classification = NULL
  /\ counterEntry = NULL
  /\ increments = <<>>
  /\ ServiceConstructed
  /\ analytics = "ok"

\* EquationEngine.generateSteps(equation) = StepGenerator.generateOptimalSequence
GenerateSteps ==
  /\ stepSequence = NULL
  /\ \E analysis \in {analyzeAndGenerateSteps(equation[1], missingProps)} :
        stepSequence' = Some(generateOptimalSequence(equation[1], missingProps, analysis))
  /\ UNCHANGED <<engineVars, serviceVars, classification, counterVars, missingProps, stepValidation, mockSolution,
                 termList, simplifiedTerms, returnedResults, sharedResult>>

\* generateTestValues(variables, 5): one value per variable and sample, each
\* drawn at random from [-10, 10]
TestValueCount == 5
TestPoints == {0, 2}
TestValueLists(variables) ==
  {[i \in 1..TestValueCount |->
      [v \in {variables[k] : k \in 1..Len(variables)} |-> RInt(points[i])]] :
   points \in [1..TestValueCount -> TestPoints]}

StepTypes == {"transposition", "combination", "distribution", "isolation", "multiplication"}

\* an expression no step of a linear equation in x leads to
UnrelatedExpression == [terms |-> <<GivenTerm(7, <<>>, 0)>>, simplified |-> TRUE]

\* the steps a student submits for an equation: an expected step, or a step
\* of any type from the left side to an unrelated expression
StudentSteps(currentEquation, expectedSteps) ==
  {expectedSteps[k] : k \in 1..Len(expectedSteps)}
  \cup {MakeStep(t, Some(currentEquation.left), Some(UnrelatedExpression), 2) : t \in StepTypes}

\* the expected steps the backend generateSteps builds for an equation
BackendExpectedSteps(currentEquation) ==
  <<MakeStep("transposition", Some(currentEquation.left), Some(currentEquation.left), 2),
    MakeStep("isolation", Some(currentEquation.left), Some(currentEquation.left), 1)>>

\* EquationEngine.validateStep(currentEquation, attemptedStep, expectedSteps)
\* of the frontend, on a complete AST and the steps generated for it
ValidateStep ==
  /\ stepValidation = NULL
  /\ stepSequence # NULL
  /\ missingProps = {}
  /\ \E attemptedStep \in StudentSteps(equation[1], stepSequence[1].steps),
        testValues \in TestValueLists(equation[1].variables) :
        stepValidation' =
          Some([engine |-> "frontend", attemptedStep |-> attemptedStep,
                expectedSteps |-> stepSequence[1].steps,
                result |-> validateStudentStep(equation[1], attemptedStep,
                                               stepSequence[1].steps, testValues)])
  /\ UNCHANGED <<engineVars, serviceVars, classification, counterVars, missingProps, stepSequence, mockSolution,
                 termList, simplifiedTerms, returnedResults, sharedResult>>

\* EquationEngine.validateStep of the backend
BackendValidateStep ==
  /\ stepValidation = NULL
  /\ missingProps = {}
  /\ \E attemptedStep \in StudentSteps(equation[1], BackendExpectedSteps(equation[1])) :
        stepValidation' =
          Some([engine |-> "backend", attemptedStep |-> attemptedStep,
                expectedSteps |-> BackendExpectedSteps(equation[1]),
                result |-> backendValidateStep(equation[1], attemptedStep,
                                               BackendExpectedSteps(equation[1]))])
  /\ UNCHANGED <<engineVars, serviceVars, classification, counterVars, missingProps, stepSequence, mockSolution,
                 termList, simplifiedTerms, returnedResults, sharedResult>>

\* EquationEngine.solve of the backend, on a complete AST: it has no throw
\* statement and no call that raises, so it always returns a Solution
BackendSolve ==
  /\ mockSolution = NULL
  /\ missingProps = {}
  /\ mockSolution' = Some([threw |-> FALSE, solution |-> backendSolve(equation[1])])
  /\ UNCHANGED <<engineVars, serviceVars, classification, counterVars, missingProps, stepSequence, stepValidation,
                 termList, simplifiedTerms, returnedResults, sharedResult>>

StepsNext == GenerateSteps \/ ValidateStep \/ BackendValidateStep \/ BackendSolve

SpecSteps == StepsInit /\ [][StepsNext]_vars

\* C12: generateOptimalSequence never throws for an AST object: when the
\* step analysis raises internally the result is exactly one fallback step
\* with isOptimal = false, and when the analysis succeeds isOptimal = true.
C12_GenerateStepsNeverThrows ==
  stepSequence # NULL =>
    /\ ~stepSequence[1].threw
    /\ IF analyzeAndGenerateSteps(equation[1], missingProps).threw
       THEN /\ Len(stepSequence[1].steps) = 1
            /\ stepSequence[1].steps[1].type = "combination"
            /\ ~stepSequence[1].isOptimal
       ELSE /\ stepSequence[1].isOptimal
            /\ stepSequence[1].steps = analyzeAndGenerateSteps(equation[1], missingProps).steps

\* a standard AST without `variables` was answered with the fallback sequence
C12_Witness ==
  /\ stepSequence # NULL
  /\ missingProps = {"variables"}
  /\ equation[1].equationType = "standard"
  /\ ~stepSequence[1].isOptimal
  /\ Len(stepSequence[1].steps) = 1


(***************************************************************************)
(* One EquationEngine and the ParseResults it has handed out               *)
(***************************************************************************)
\* parse calls made on one engine
MaxResults == 2
\* warnings a returned ParseResult is followed up to
MaxWarnings == 2

ParserInputs == ExampleInputs \cup {<<>>, <<"x">>}

\* the ASTs handed to getEquationType: those without variables draw a
\* warning from detectEquationType
ClassifiedASTs == {a \in GivenASTs : a.equationType = "basic"}

ParserStateInit ==
  /\ input = <<>>
  /\ form = NoForm
  /\ parserResult = NULL
  /\ parseResult = NULL
  /\ equation = NULL
  /\ solution = NULL
  /\ ToolsIdle
  /\ ServiceConstructed
  /\ analytics = "ok"

\* EquationEngine.parse(str): an input that fails validateInput is answered
\* with a fresh object; otherwise the parser resets its arrays to new ones
\* and createParseResult returns those very arrays
ParseNext ==
  /\ Len(returnedResults) < MaxResults
  /\ \E str \in ParserInputs :
        /\ returnedResults' = Append(returnedResults, parse(str))
        /\ sharedResult' = IF validateInput(str).isValid
                           THEN Len(returnedResults) + 1
                           ELSE sharedResult
  /\ UNCHANGED <<engineVars, serviceVars, classification, counterVars, missingProps, stepSequence, stepValidation,
                 mockSolution, termList, simplifiedTerms>>

\* EquationEngine.getEquationType(ast) = parser.detectEquationType(ast): its
\* addWarning pushes onto the parser's current warnings array
GetEquationType ==
  /\ sharedResult # 0 => Len(returnedResults[sharedResult].warnings) < MaxWarnings
  /\ \E ast \in ClassifiedASTs :
        returnedResults' =
          IF sharedResult = 0
          THEN returnedResults
          ELSE [returnedResults EXCEPT
                  ![sharedResult].warnings = @ \o detectEquationType(ast).warnings]
  /\ UNCHANGED <<engineVars, serviceVars, classification, counterVars, missingProps, stepSequence, stepValidation,
                 mockSolution, termList, simplifiedTerms, sharedResult>>

ParserStateNext == ParseNext \/ GetEquationType

SpecParserState == ParserStateInit /\ [][ParserStateNext]_vars

\* C18: no call of parse or getEquationType changes a ParseResult that was
\* returned before it.
C18_ReturnedResultsUnchanged ==
  [][\A i \in 1..Len(returnedResults) : returnedResults'[i] = returnedResults[i]]_vars


(***************************************************************************)
(* The simplifiers, called directly with a list of terms                   *)
(***************************************************************************)
MaxTerms == 3
MaxTermCoef == 1

\* constants, x and x^2 with a small nonzero integer coefficient, and 0x
TermPool ==
  {GivenTerm(c, <<>>, 0) : c \in (-MaxTermCoef..MaxTermCoef) \ {0}}
  \cup {GivenTerm(c, <<"x">>, e) : c \in (-MaxTermCoef..MaxTermCoef) \ {0}, e \in 1..2}
  \cup {GivenTerm(0, <<"x">>, 1)}

\* [3x, -1, 2x] and [2x, 3x, -1]
Terms3xMinus1Plus2x ==
  <<GivenTerm(3, <<"x">>, 1), GivenTerm(-1, <<>>, 0), GivenTerm(2, <<"x">>, 1)>>
Terms2xPlus3xMinus1 ==
  <<GivenTerm(2, <<"x">>, 1), GivenTerm(3, <<"x">>, 1), GivenTerm(-1, <<>>, 0)>>

TermLists ==
  UNION {[1..n -> TermPool] : n \in 0..MaxTerms}
  \cup {Terms3xMinus1Plus2x, Terms2xPlus3xMinus1}

\* the rearrangements of a list of n terms
Rearrangements(n) == {f \in [1..n -> 1..n] : \A i, j \in 1..n : f[i] = f[j] => i = j}

Rearranged(terms, f) == [k \in 1..Len(terms) |-> terms[f[k]]]

SimplifyInit ==
  /\ input = <<>>
  /\ form = NoForm
  /\ parserResult = NULL
  /\ parseResult = NULL
  /\ equation = NULL
  /\ solution = NULL
  /\ missingProps = {}
  /\ stepSequence = NULL
  /\ stepValidation = NULL
  /\ mockSolution = NULL
  /\ termList \in TermLists
  /\ simplifiedTerms = NULL
  /\ returnedResults = <<>>
  /\ sharedResult = 0
  /\ classification = NULL
  /\ counterEntry = NULL
  /\ increments = <<>>
  /\ ServiceConstructed
  /\ analytics = "ok"

\* ExpressionEvaluator.simplifyExpression on termList, on a rearrangement of
\* it, and on its own result
SimplifyExpression ==
  /\ simplifiedTerms = NULL
  /\ \E f \in Rearrangements(Len(termList)) :
        simplifiedTerms' =
          Some([by |-> "simplifyExpression",
                direct |-> simplifyExpression([terms |-> termList,
                                               simplified |-> FALSE]).terms,
                rearranged |-> simplifyExpression([terms |-> Rearranged(termList, f),
                                                   simplified |-> FALSE]).terms,
                again |-> simplifyExpression(
                            simplifyExpression([terms |-> termList,
                                                simplified |-> FALSE])).terms])
  /\ UNCHANGED <<engineVars, serviceVars, classification, counterVars, missingProps, stepSequence, stepValidation,
                 mockSolution, termList, returnedResults, sharedResult>>

\* mathUtils.simplifyTerms on termList, on a rearrangement of it, and on its
\* own result
SimplifyTerms ==
  /\ simplifiedTerms = NULL
  /\ \E f \in Rearrangements(Len(termList)) :
        simplifiedTerms' =
          Some([by |-> "simplifyTerms",
                direct |-> simplifyTerms(termList),
                rearranged |-> simplifyTerms(Rearranged(termList, f)),
                again |-> simplifyTerms(simplifyTerms(termList))])
  /\ UNCHANGED <<engineVars, serviceVars, classification, counterVars, missingProps, stepSequence, stepValidation,
                 mockSolution, termList, returnedResults, sharedResult>>

SimplifyNext == SimplifyExpression \/ SimplifyTerms

SpecSimplify == SimplifyInit /\ [][SimplifyNext]_vars

\* the (coefficient, variable) pairs of a list of terms, and how often a
\* pair occurs in it
TermPairs(terms) == {<<terms[k].coefficient, terms[k].variable>> : k \in 1..Len(terms)}

PairCount(terms, pair) ==
  Cardinality({k \in 1..Len(terms) : <<terms[k].coefficient, terms[k].variable>> = pair})

SameTermMultiset(terms1, terms2) ==
  /\ Len(terms1) = Len(terms2)
  /\ \A pair \in TermPairs(terms1) \cup TermPairs(terms2) :
        PairCount(terms1, pair) = PairCount(terms2, pair)

SamplePoints ==
  <<[v \in {<<"x">>} |-> RInt(0)], [v \in {<<"x">>} |-> RInt(1)],
    [v \in {<<"x">>} |-> RInt(-1)]>>

EquivalentAtSamples(expr1, expr2) ==
  LET r == areExpressionsEquivalent(expr1, expr2, SamplePoints)
  IN  r.ok /\ r.equivalent

MatchesExpectedStep(attemptedStep, expectedSteps) ==
  \E k \in 1..Len(expectedSteps) :
     /\ expectedSteps[k].type = attemptedStep.type
     /\ EquivalentAtSamples(attemptedStep.toExpression[1], expectedSteps[k].toExpression[1])

\* C13: validateStep answers isValid = true only if some expected step has
\* the type of the attempted step and a toExpression that takes the same
\* value as the attempted step's toExpression at every sample point.
C13_ValidOnlyIfEquivalent ==
  (stepValidation # NULL /\ stepValidation[1].result.isValid) =>
     MatchesExpectedStep(stepValidation[1].attemptedStep, stepValidation[1].expectedSteps)

\* the AST has no variables, or the coefficients of its variable terms on
\* the left sum to about 0
NothingToSolveFor(ast) ==
  \/ Len(ast.variables) = 0
  \/ RLess(RAbs(SumCoefficients(ast.left.terms, 1, FALSE)), Rat(1, 1000))

\* C16: the backend solve signals a failure, and returns no value, when the
\* AST has no variables or its variable coefficient is about 0.
C16_BackendSolveFailsExplicitly ==
  (mockSolution # NULL /\ NothingToSolveFor(equation[1])) => mockSolution[1].threw

\* the equationType EquationEngine.parse gives the AST of an input, or
\* "none" when it returns no AST
TypeOfInput(str) == IF parse(str).ast = NULL THEN "none" ELSE parse(str).ast[1].equationType

\* C14: the five equations of the main criterion are classified into at
\* least 3 different equationType values, and every equation with a
\* parenthesized factor parses with no errors and is classified
\* 'distributive' or 'complex'.
C14_RecognizesThreeTypes ==
  /\ (input \in DiverseEquations /\ parseResult # NULL) =>
        /\ parseResult[1].ast # NULL
        /\ Cardinality({TypeOfInput(str) : str \in DiverseEquations}) >= 3
  /\ (input \in DistributiveEquations /\ parseResult # NULL) =>
        /\ parseResult[1].ast # NULL
        /\ parseResult[1].errors = <<>>
        /\ parseResult[1].ast[1].equationType \in {"distributive", "complex"}

\* C15: parse gives 'a(x + b) = c' and 'a*x = c' an AST that denotes the
\* written equation, so solve returns x = c/a - b, respectively x = c/a.
C15_OperatorsAndGrouping ==
  \A a \in 1..MaxCoef, c \in 0..MaxCoef :
     /\ \A b \in 0..MaxCoef :
          (input = GroupedInput(a, b, c) /\ solution # NULL) =>
             /\ solution[1].status = "ok"
             /\ solution[1].value = RSub(Rat(c, a), RInt(b))
     /\ (input = ProductInput(a, c) /\ solution # NULL) =>
             /\ solution[1].status = "ok"
             /\ solution[1].value = Rat(c, a)

\* call c is a processEquation that missed the cache and has parsed its input
ParsedFresh(c) ==
  calls[c].op = "processEquation" /\ calls[c].cached = NULL /\ calls[c].parseResult # NULL

\* C20: two processEquation calls that both miss the cache get different
\* equation ids, also when both parse within the same millisecond.
C20_DistinctEquationIds ==
  \A c1, c2 \in 1..Len(calls) :
     (c1 # c2 /\ ParsedFresh(c1) /\ ParsedFresh(c2)) =>
        calls[c1].equationId # calls[c2].equationId

(***************************************************************************)
(* The classifier, called directly with an AST                             *)
(***************************************************************************)
\* terms one side of a classified AST has at most
MaxSideTerms == 3

ClassifierTerms ==
  {GivenTerm(1, <<>>, 0), GivenTerm(1, <<"x">>, 1), GivenTerm(2, <<"x">>, 1),
   GivenTerm(-2, <<"x">>, 1)}

ClassifierSides == UNION {[1..n -> ClassifierTerms] : n \in 0..MaxSideTerms}

ClassifierASTs ==
  {[left |-> [terms |-> l, simplified |-> FALSE],
    right |-> [terms |-> r, simplified |-> FALSE],
    metadata |-> [originalInput |-> <<>>, difficultyLevel |-> "beginner",
                  estimatedSteps |-> 0, requiredOperations |-> <<>>],
    equationType |-> "basic",
    variables |-> VariablesFrom(l \o r, 1, <<>>),
    complexity |-> 0] :
   l \in ClassifierSides, r \in ClassifierSides}

\* what AlgebraicParser.parseEquation builds for '2x + 3 = x + 8'
Parsed2xPlus3EqXPlus8 == parseEquation(Str2xPlus3EqXPlus8).ast[1]

ClassifyInit ==
  /\ input = <<>>
  /\ form = NoForm
  /\ parserResult = NULL
  /\ parseResult = NULL
  /\ equation \in {Some(a) : a \in ClassifierASTs \cup {Parsed2xPlus3EqXPlus8}}
  /\ solution = NULL
  /\ ToolsIdle
  /\ ServiceConstructed
  /\ analytics = "ok"

\* EquationEngine.getEquationType(equation) on an engine that has parsed
\* nothing yet
ClassifyEquation ==
  /\ equation # NULL
  /\ classification = NULL
  /\ classification' = Some(detectEquationType(equation[1]).type)
  /\ returnedResults' =
       IF sharedResult = 0
       THEN returnedResults
       ELSE [returnedResults EXCEPT
               ![sharedResult].warnings = @ \o detectEquationType(equation[1]).warnings]
  /\ UNCHANGED <<engineVars, serviceVars, counterVars, missingProps, stepSequence,
                 stepValidation, mockSolution, termList, simplifiedTerms, sharedResult>>

ClassifyNext == ClassifyEquation

SpecClassify == ClassifyInit /\ [][ClassifyNext]_vars

\* the terms of both sides that satisfy a condition
TermCount(ast, Cond(_)) ==
  Cardinality({k \in 1..Len(ast.left.terms) : Cond(ast.left.terms[k])})
  + Cardinality({k \in 1..Len(ast.right.terms) : Cond(ast.right.terms[k])})

AnyTerm(term) == TRUE
VariableTerm(term) == ~term.isConstant
ScaledVariableTerm(term) ==
  ~term.isConstant /\ (RLess(RInt(1), term.coefficient) \/ RLess(term.coefficient, RInt(-1)))

\* the rules of the classifier, each with the type it gives
RuleHolds(ast, rule) ==
  CASE rule = 1 -> TermCount(ast, VariableTerm) = 0
    [] rule = 2 -> TermCount(ast, VariableTerm) = 1 /\ TermCount(ast, AnyTerm) <= 2
    [] rule = 3 -> TermCount(ast, VariableTerm) > 1 /\ TermCount(ast, AnyTerm) <= 4
    [] rule = 4 -> TermCount(ast, AnyTerm) >= 3 /\ TermCount(ast, ScaledVariableTerm) >= 1
    [] rule = 5 -> TermCount(ast, AnyTerm) > 4
    [] rule = 6 -> TRUE

RuleType == <<"basic", "basic", "standard", "distributive", "complex", "standard">>

FirstMatchingRule(ast) ==
  CHOOSE rule \in 1..6 : RuleHolds(ast, rule) /\ \A earlier \in 1..(rule - 1) : ~RuleHolds(ast, earlier)

\* C21: the type getEquationType returns for an AST is the type of the first
\* rule that matches it, the rules tried in the order no variable terms,
\* one variable term in at most two terms, several variable terms in at most
\* four terms, distributive pattern, more than four terms, otherwise; the AST
\* parsed from '2x + 3 = x + 8' is classified standard.
C21_FirstMatchingRule ==
  classification # NULL =>
    /\ classification[1] = RuleType[FirstMatchingRule(equation[1])]
    /\ equation[1] = Parsed2xPlus3EqXPlus8 => classification[1] = "standard"

\* an AST of five terms with a doubled variable was classified: the
\* distributive rule and the term-count rule both match it
C21_Witness ==
  /\ classification # NULL
  /\ RuleHolds(equation[1], 4) /\ RuleHolds(equation[1], 5)
  /\ FirstMatchingRule(equation[1]) = 4

\* the step types of a sequence, in order
TypesOf(steps) == [i \in 1..Len(steps) |-> steps[i].type]

\* the sum of the coefficients of the constant terms, or of the terms in
\* the variable solved for, of one side
RECURSIVE SideCoefficient(_, _, _)
SideCoefficient(terms, constants, i) ==
  IF i > Len(terms) THEN RInt(0)
  ELSE RAdd(IF terms[i].isConstant = constants THEN terms[i].coefficient ELSE RInt(0),
            SideCoefficient(terms, constants, i + 1))

RightSideNonZero(ast) ==
  \/ SideCoefficient(ast.right.terms, TRUE, 1) # RInt(0)
  \/ SideCoefficient(ast.right.terms, FALSE, 1) # RInt(0)

HasTwoLikeTerms(terms) ==
  \E i, j \in 1..Len(terms) : i # j /\ terms[i].isConstant = terms[j].isConstant

\* C22: generateSteps of a basic AST returns [transposition, isolation] when
\* the right side has a non-zero constant or variable coefficient and
\* [isolation] otherwise; of a standard AST it returns transposition,
\* transposition, isolation, preceded by a combination step exactly when
\* some side has two variable terms or two constant terms; the last step is
\* an isolation step in both cases.
C22_BasicAndStandardSequences ==
  (stepSequence # NULL /\ missingProps = {}) =>
    LET ast == equation[1]
        types == TypesOf(stepSequence[1].steps)
    IN  /\ ast.equationType = "basic" =>
             types = IF RightSideNonZero(ast) THEN <<"transposition", "isolation">>
                     ELSE <<"isolation">>
        /\ ast.equationType = "standard" =>
             types = (IF HasTwoLikeTerms(ast.left.terms) \/ HasTwoLikeTerms(ast.right.terms)
                      THEN <<"combination">> ELSE <<>>)
                     \o <<"transposition", "transposition", "isolation">>
        /\ ast.equationType \in {"basic", "standard"} =>
             types[Len(types)] = "isolation"

\* a basic AST with a zero right side got the single step isolation
C22_Witness ==
  /\ stepSequence # NULL
  /\ missingProps = {}
  /\ equation[1].equationType = "basic"
  /\ ~RightSideNonZero(equation[1])
  /\ TypesOf(stepSequence[1].steps) = <<"isolation">>

\* a standard AST with two constant terms on one side got four steps
C22_WitnessCombination ==
  /\ stepSequence # NULL
  /\ missingProps = {}
  /\ equation[1].equationType = "standard"
  /\ Len(stepSequence[1].steps) = 4

\* the step types of the standard sequence of an AST
StandardTypes(ast) ==
  (IF HasTwoLikeTerms(ast.left.terms) \/ HasTwoLikeTerms(ast.right.terms)
   THEN <<"combination">> ELSE <<>>)
  \o <<"transposition", "transposition", "isolation">>

\* C23: the step sequence generated for an AST of type distributive or
\* complex is a distribution step, then a combination step, then the
\* standard sequence.
C23_DistributionFirst ==
  (stepSequence # NULL /\ missingProps = {}
   /\ equation[1].equationType \in {"distributive", "complex"}) =>
    TypesOf(stepSequence[1].steps)
      = <<"distribution", "combination">> \o StandardTypes(equation[1])

\* the sequence of x + 1 + 2 = x + 1, which the classifier calls complex,
\* starts with a combination step
C23_ComplexStartsWithCombination ==
  /\ stepSequence # NULL
  /\ missingProps = {}
  /\ equation[1].equationType = "complex"
  /\ detectEquationType(equation[1]).type = "complex"
  /\ stepSequence[1].steps[1].type = "combination"

\* C24: every VARIABLE token the tokenizer emits has a text of length 1; a
\* run of adjacent letters is never one token.
C24_SingleLetterVariables ==
  /\ parserResult # NULL =>
       \A k \in 1..Len(parserResult[1].tokens) :
          parserResult[1].tokens[k].type = "VARIABLE"
            => Len(parserResult[1].tokens[k].value) = 1
  /\ parseResult # NULL =>
       \A k \in 1..Len(parseResult[1].tokens) :
          parseResult[1].tokens[k].type = "VARIABLE"
            => Len(parseResult[1].tokens[k].value) = 1

\* 'xy=' was tokenized to the VARIABLE token 'xy' and the equals sign
C24_TwoLetterToken ==
  /\ input = <<"x", "y", "=">>
  /\ parseResult # NULL
  /\ Len(parseResult[1].tokens) = 2
  /\ parseResult[1].tokens[1].type = "VARIABLE"
  /\ parseResult[1].tokens[1].value = <<"x", "y">>

\* like terms: both constant, or the same variable with the same exponent
LikeTerms(t, u) ==
  \/ t.isConstant /\ u.isConstant
  \/ ~t.isConstant /\ ~u.isConstant /\ t.variable = u.variable /\ t.exponent = u.exponent

\* the sum of the coefficients of the terms of a list that are like t
RECURSIVE LikeSum(_, _, _)
LikeSum(terms, t, i) ==
  IF i > Len(terms) THEN RInt(0)
  ELSE RAdd(IF LikeTerms(terms[i], t) THEN terms[i].coefficient ELSE RInt(0),
            LikeSum(terms, t, i + 1))

\* C25: simplification merges like terms only: each term of the result
\* carries the sum of the terms of the input that are like it, every class of
\* like terms with a non-zero sum is still there, the result holds no two
\* like terms and no term with |coefficient| < 1e-10.
C25_MergesLikeTermsOnly ==
  simplifiedTerms # NULL =>
    LET out == simplifiedTerms[1].direct
    IN  /\ \A i, j \in 1..Len(out) : i # j => ~LikeTerms(out[i], out[j])
        /\ \A i \in 1..Len(out) : ~BelowEps(out[i].coefficient)
        /\ \A i \in 1..Len(out) : out[i].coefficient = LikeSum(termList, out[i], 1)
        /\ \A k \in 1..Len(termList) :
              ~BelowEps(LikeSum(termList, termList[k], 1))
                => \E i \in 1..Len(out) : LikeTerms(out[i], termList[k])

\* simplifyExpression merged x and x^2 into one term
C25_ExponentsMerged ==
  /\ simplifiedTerms # NULL
  /\ simplifiedTerms[1].by = "simplifyExpression"
  /\ termList = <<GivenTerm(1, <<"x">>, 1), GivenTerm(1, <<"x">>, 2)>>
  /\ Len(simplifiedTerms[1].direct) = 1
  /\ simplifiedTerms[1].direct[1].coefficient = RInt(2)

\* simplifyTerms left the term 0x in its result
C25_ZeroTermKept ==
  /\ simplifiedTerms # NULL
  /\ simplifiedTerms[1].by = "simplifyTerms"
  /\ termList = <<GivenTerm(0, <<"x">>, 1)>>
  /\ simplifiedTerms[1].direct = termList

(***************************************************************************)
(* EquationService.processEquation and the lifetime of its cache entries   *)
(***************************************************************************)
\* the one-millisecond steps of Date.now() before and after the long one
MaxShortTicks == 2

\* 'X+5=10': x + 5 = 10 in another case and without its whitespace
StrUpperXPlus5Eq10 == <<"X", "+", "5", "=", "1", "0">>

CachedInputs == {StrXPlus5Eq10, StrUpperXPlus5Eq10}

CacheUsers == {"alice", "bob"}

CacheTTLMs == CacheTTLSeconds * 1000

\* Date.now() advances by a millisecond, or by a millisecond less than the ttl
TickSizes == {1, CacheTTLMs - 1}

ClockTimes == {short + long * (CacheTTLMs - 1) : short \in 0..MaxShortTicks, long \in 0..1}

CacheInit == RequestsInit

RequestCachedEquation ==
  /\ CanRequest
  /\ IssueProcessEquationOf(CacheUsers, CachedInputs)
  /\ UNCHANGED <<now, mockData, events, analytics, engineVars, toolVars>>

\* time passes, between two calls or while a call waits on a promise
CacheTick ==
  /\ \E d \in TickSizes :
       /\ now + d \in ClockTimes
       /\ now' = now + d
  /\ UNCHANGED <<mockData, mockCache, events, analytics, calls, engineVars, toolVars>>

CacheNext ==
  \/ RequestCachedEquation
  \/ ProcessCacheHit
  \/ ProcessCacheMiss
  \/ ProcessSolve
  \/ ProcessSaveSteps
  \/ ProcessCacheSet
  \/ ProcessRecordCreation
  \/ Return
  \/ CacheTick

SpecCache == CacheInit /\ [][CacheNext]_vars

\* the input as generateCacheKey normalizes it
Normalized(rawInput) == SelectSeq(toLowerCase(rawInput), LAMBDA ch : ch \notin Whitespace)

\* call c ran the whole pipeline and returned
ProcessedAndReturned(c) ==
  /\ calls[c].op = "processEquation"
  /\ calls[c].pc = "returned"
  /\ calls[c].cached = NULL

\* call c2 is a later processEquation of the input of c1, no call in between
\* having processed that input anew
NextCallOfSameInput(c1, c2) ==
  /\ c1 < c2
  /\ calls[c2].op = "processEquation"
  /\ Normalized(calls[c2].input) = Normalized(calls[c1].input)
  /\ \A c \in (c1 + 1)..(c2 - 1) :
        ~(calls[c].op = "processEquation" /\ calls[c].cached = NULL
          /\ Normalized(calls[c].input) = Normalized(calls[c1].input))

\* the equation_accessed events of a user for a cache hit on an id
CacheHitEvents(userId, equationId) ==
  {k \in 1..Len(events[userId]) :
     /\ events[userId][k].eventType = "equation_accessed"
     /\ events[userId][k].data.equationId = equationId
     /\ events[userId][k].data.accessType = "cache_hit"}

\* the calls of a user that were answered from the cache with an id and
\* have recorded it
RecordedHits(userId, equationId) ==
  {c \in 1..Len(calls) :
     /\ calls[c].op = "processEquation"
     /\ calls[c].userId = userId
     /\ calls[c].cached # NULL
     /\ calls[c].pc \in {"recorded", "returned"}
     /\ calls[c].cached[1].id = equationId}

\* call c2 is answered with the cached copy of the result of c1: it saves
\* nothing, records the access and returns the copy
ServedFromCache(c1, c2) ==
  /\ calls[c2].cached # NULL
  /\ calls[c2].cached = calls[c1].result
  /\ calls[c2].cached[1].id = calls[c1].result[1].id
  /\ calls[c2].pc \in {"cacheGet", "recorded", "returned"}
  /\ calls[c2].parseResult = NULL /\ calls[c2].solution = NULL /\ calls[c2].steps = NULL
  /\ calls[c2].pc = "returned" => calls[c2].result = calls[c1].result
  /\ Cardinality(CacheHitEvents(calls[c2].userId, calls[c1].result[1].id))
       = Cardinality(RecordedHits(calls[c2].userId, calls[c1].result[1].id))

\* call c2 found no entry and runs the pipeline again
ProcessedAgain(c2) ==
  /\ calls[c2].cached = NULL
  /\ calls[c2].pc \in {"recorded", "returned"} => calls[c2].parseResult # NULL

\* C26 as stated, the hour counted from the completion of the first call
C26_Original ==
  \A c1, c2 \in 1..Len(calls) :
    (ProcessedAndReturned(c1) /\ NextCallOfSameInput(c1, c2)) =>
      IF calls[c2].issuedAt - calls[c1].returnedAt < CacheTTLMs
      THEN ServedFromCache(c1, c2)
      ELSE ProcessedAgain(c2)

\* C26: a processEquation call whose cache lookup takes place at most 3600
\* seconds after the cache.set of an earlier completed call of the same
\* normalized input is answered with the cached copy of that call's result
\* (same id), records an equation_accessed event and saves nothing; a lookup
\* later than that finds no entry and the input is processed again.
C26_CachedWithinTTLOfSet ==
  \A c1, c2 \in 1..Len(calls) :
    (ProcessedAndReturned(c1) /\ NextCallOfSameInput(c1, c2)) =>
      IF calls[c2].issuedAt - calls[c1].storedAt <= CacheTTLMs
      THEN ServedFromCache(c1, c2)
      ELSE ProcessedAgain(c2)

\* 'X+5=10' was answered from the entry of 'x + 5 = 10' exactly 3600 seconds
\* after it was stored
C26_Witness ==
  /\ Len(calls) = 2
  /\ ProcessedAndReturned(1)
  /\ calls[1].input # calls[2].input
  /\ NextCallOfSameInput(1, 2)
  /\ calls[2].issuedAt - calls[1].storedAt = CacheTTLMs
  /\ calls[2].pc = "returned"
  /\ calls[2].result = calls[1].result

\* a call less than an hour after the first one's return, more than an hour
\* after its cache.set, was processed again
C26_WitnessExpired ==
  /\ Len(calls) = 2
  /\ ProcessedAndReturned(1)
  /\ NextCallOfSameInput(1, 2)
  /\ calls[2].issuedAt - calls[1].returnedAt < CacheTTLMs
  /\ calls[2].pc = "returned"
  /\ calls[2].cached = NULL

(***************************************************************************)
(* CacheService.increment, several calls on one key                        *)
(***************************************************************************)
\* increment calls issued on the key
MaxIncrements == 3

\* the amounts added
IncrementAmounts == {1, 2}

\* the ttl increment stores the counter with, in seconds
IncrementTTLSeconds == 3600

IncrementInit ==
  /\ input = <<>>
  /\ form = NoForm
  /\ parserResult = NULL
  /\ parseResult = NULL
  /\ equation = NULL
  /\ solution = NULL
  /\ ToolsIdle
  /\ ServiceConstructed
  /\ analytics = "ok"

\* the value CacheService.get hands back for the counter key at Date.now()
\* = time, and the entry afterwards
counterGet(entry, time) ==
  IF entry = NULL
  THEN [value |-> NULL, entry |-> NULL]
  ELSE IF time > entry[1].expiry
       THEN [value |-> NULL, entry |-> NULL]
       ELSE [value |-> Some(entry[1].value), entry |-> entry]

\* increment(key, by) up to `await this.get(key)`: get has looked the entry
\* up and the call waits for its promise
CallIncrement ==
  /\ Len(increments) < MaxIncrements
  /\ \E by \in IncrementAmounts :
       \E got \in {counterGet(counterEntry, now)} :
          /\ counterEntry' = got.entry
          /\ increments' = Append(increments,
               [pc |-> "get", by |-> by, read |-> got.value, newValue |-> 0])
  /\ UNCHANGED <<engineVars, serviceVars, classification, missingProps, stepSequence,
                 stepValidation, mockSolution, termList, simplifiedTerms,
                 returnedResults, sharedResult>>

\* `const current = ... || 0; const newValue = Number(current) + by` and
\* this.set(key, newValue, 3600) up to the await in set
IncrementSet ==
  /\ \E c \in 1..Len(increments) :
       /\ increments[c].pc = "get"
       /\ \E newValue \in {(IF increments[c].read = NULL THEN 0 ELSE increments[c].read[1])
                           + increments[c].by} :
            /\ counterEntry' = Some([value |-> newValue,
                                     expiry |-> now + IncrementTTLSeconds * 1000])
            /\ increments' = [increments EXCEPT ![c].pc = "set",
                                                ![c].newValue = newValue]
  /\ UNCHANGED <<engineVars, serviceVars, classification, missingProps, stepSequence,
                 stepValidation, mockSolution, termList, simplifiedTerms,
                 returnedResults, sharedResult>>

\* `return newValue`
IncrementReturn ==
  /\ \E c \in 1..Len(increments) :
       /\ increments[c].pc = "set"
       /\ increments' = [increments EXCEPT ![c].pc = "returned"]
  /\ UNCHANGED <<engineVars, serviceVars, classification, counterEntry, missingProps,
                 stepSequence, stepValidation, mockSolution, termList, simplifiedTerms,
                 returnedResults, sharedResult>>

IncrementNext == CallIncrement \/ IncrementSet \/ IncrementReturn

SpecIncrement == IncrementInit /\ [][IncrementNext]_vars

\* the sum of the amounts of the calls from i on
RECURSIVE AmountsFrom(_, _)
AmountsFrom(issued, i) ==
  IF i > Len(issued) THEN 0 ELSE issued[i].by + AmountsFrom(issued, i + 1)

\* C27: once the increment calls issued on a key that held no counter have
\* all returned, the stored counter is the sum of their amounts: k calls by
\* 1 leave it at k, in whatever order their steps ran.
C27_NoLostUpdate ==
  (Len(increments) > 0 /\ \A c \in 1..Len(increments) : increments[c].pc = "returned") =>
    /\ counterEntry # NULL
    /\ counterEntry[1].value = AmountsFrom(increments, 1)

\* two increment(key) calls issued together both returned 1 and the counter
\* stands at 1
C27_LostUpdate ==
  /\ Len(increments) = 2
  /\ \A c \in 1..2 : increments[c].pc = "returned" /\ increments[c].by = 1
                     /\ increments[c].newValue = 1
  /\ counterEntry = Some([value |-> 1, expiry |-> IncrementTTLSeconds * 1000])

(***************************************************************************)
(* EquationService: equations submitted by several users and read back     *)
(***************************************************************************)
\* processEquation and getEquation requests, served one after another
MaxAccessCalls == 3

CanAccess == Len(calls) < MaxAccessCalls /\ InFlight = {}

AccessProcessEquation ==
  /\ CanAccess
  /\ IssueProcessEquation
  /\ UNCHANGED <<now, mockData, events, analytics, engineVars, toolVars>>

AccessGetEquation ==
  /\ CanAccess
  /\ IssueGetEquation
  /\ UNCHANGED <<now, mockData, mockCache, events, analytics, engineVars, toolVars>>

AccessInit == RequestsInit

AccessNext ==
  \/ AccessProcessEquation
  \/ ProcessCacheHit
  \/ ProcessCacheMiss
  \/ ProcessSolve
  \/ ProcessSaveSteps
  \/ ProcessCacheSet
  \/ ProcessRecordCreation
  \/ AccessGetEquation
  \/ GetEquationDenied
  \/ GetEquationGranted
  \/ GetEquationSolution
  \/ GetEquationSteps
  \/ GetEquationRecordAccess
  \/ Return
  \/ Rethrow

SpecAccess == AccessInit /\ [][AccessNext]_vars

\* call c1 is a processEquation that returned an id to its user, and c2 a
\* later getEquation of that id by that user, no call lying between them
ReadsOwnResult(c1, c2) ==
  /\ c2 = c1 + 1
  /\ calls[c1].op = "processEquation"
  /\ calls[c1].pc = "returned"
  /\ calls[c2].op = "getEquation"
  /\ calls[c2].userId = calls[c1].userId
  /\ calls[c2].equationId = calls[c1].result[1].id

\* C28: a getEquation(id, u) that follows a processEquation which returned
\* id to u does not fail, whatever calls were served before.
C28_OwnResultReadable ==
  \A c1, c2 \in 1..Len(calls) :
    ReadsOwnResult(c1, c2) => calls[c2].pc \notin {"rethrow", "threw"}

\* bob submitted the input alice had submitted, was handed her id from the
\* cache, and was refused when he read it
C28_DeniedOwnResult ==
  /\ Len(calls) = 3
  /\ calls[1].op = "processEquation" /\ calls[1].userId = "alice"
  /\ calls[2].op = "processEquation" /\ calls[2].userId = "bob"
  /\ calls[2].input = calls[1].input
  /\ calls[2].cached # NULL
  /\ ReadsOwnResult(2, 3)
  /\ calls[3].pc = "threw"
  /\ calls[3].error = PermissionMessage

\* the user of call c created the equation the call names: an earlier
\* processEquation of that user ran the pipeline and saved it under that id
CalledByCreator(c) ==
  \E c0 \in 1..(c - 1) :
     /\ calls[c0].op = "processEquation"
     /\ calls[c0].cached = NULL
     /\ calls[c0].parseResult # NULL
     /\ calls[c0].equationId = calls[c].equationId
     /\ calls[c0].userId = calls[c].userId

\* C29: getEquation, validateStudentStep and generateSimilarEquation return
\* only when called by the user who created the equation they name.
C29_OnlyCreatorSucceeds ==
  \A c \in 1..Len(calls) :
    (calls[c].op \in {"getEquation", "validateStudentStep", "generateSimilarEquation"}
     /\ calls[c].pc = "returned")
      => CalledByCreator(c)

\* bob validated a step against the equation alice created
C29_ValidatedByStranger ==
  /\ Len(calls) = 2
  /\ calls[1].op = "processEquation" /\ calls[1].userId = "alice" /\ calls[1].pc = "returned"
  /\ calls[2].op = "validateStudentStep" /\ calls[2].userId = "bob"
  /\ calls[2].equationId = calls[1].result[1].id
  /\ calls[2].pc = "returned"

\* bob derived a similar equation from the equation alice created
C29_SimilarByStranger ==
  /\ Len(calls) >= 2
  /\ calls[1].op = "processEquation" /\ calls[1].userId = "alice" /\ calls[1].pc = "returned"
  /\ calls[2].op = "generateSimilarEquation" /\ calls[2].userId = "bob"
  /\ calls[2].equationId = calls[1].result[1].id
  /\ calls[2].pc = "returned"

\* test-user-123 read the equation alice created
C29_ReadByTestUser ==
  /\ Len(calls) = 2
  /\ calls[1].op = "processEquation" /\ calls[1].userId = "alice" /\ calls[1].pc = "returned"
  /\ calls[2].op = "getEquation" /\ calls[2].userId = "test-user-123"
  /\ calls[2].equationId = calls[1].result[1].id
  /\ calls[2].pc = "returned"

\* the operations and the least number of steps that go with a type
OperationsOfType(type) ==
  CASE type = "basic" -> <<"transposition", "isolation">>
    [] type = "standard" -> <<"transposition", "combination", "isolation">>
    [] type \in {"distributive", "complex"} ->
         <<"distribution", "combination", "transposition", "isolation">>
    [] type = "fractional" -> <<"multiplication", "combination", "isolation">>
    [] OTHER -> <<"combination", "transposition", "isolation">>

StepsOfType(type) ==
  CASE type = "basic" -> 2
    [] type = "standard" -> 3
    [] type = "distributive" -> 4
    [] type = "complex" -> 6
    [] type = "fractional" -> 5
    [] OTHER -> 3

ComplexityOfType(type) ==
  CASE type = "basic" -> 1
    [] type = "standard" -> 2
    [] type = "distributive" -> 3
    [] type = "complex" -> 5
    [] type = "fractional" -> 4
    [] OTHER -> 1

\* C30: the AST a successful parse returns carries the complexity, the
\* estimated steps and the required operations of its final equationType: a
\* standard AST has the operations transposition, combination, isolation and
\* at least 3 estimated steps, a distributive one has distribution among its
\* operations.
C30_MetadataOfFinalType ==
  (parseResult # NULL /\ parseResult[1].ast # NULL) =>
    LET ast == parseResult[1].ast[1]
    IN  /\ ast.metadata.requiredOperations = OperationsOfType(ast.equationType)
        /\ ast.metadata.estimatedSteps >= StepsOfType(ast.equationType)
        /\ ast.complexity
             = Min(Len(ast.left.terms) + Len(ast.right.terms)
                   + ComplexityOfType(ast.equationType), 10)

\* '2x + 3 = x + 8' came out standard with the operations and the estimate
\* of a basic equation
C30_StandardWithBasicMetadata ==
  /\ input = Str2xPlus3EqXPlus8
  /\ parseResult # NULL
  /\ parseResult[1].ast # NULL
  /\ parseResult[1].ast[1].equationType = "standard"
  /\ parseResult[1].ast[1].metadata.requiredOperations = <<"transposition", "isolation">>
  /\ parseResult[1].ast[1].metadata.estimatedSteps = 2

====
